---- MODULE Spec2Model ----
(***************************************************************************)
(* Model of putesco's page: the lockfile extractor (extractPackages) and   *)
(* the enrichment orchestrator of Home (processInput / fetchPackageData).  *)
(*                                                                         *)
(* Representation.                                                         *)
(*  - A JavaScript string is a sequence of tokens.  A token is one         *)
(*    character, except a few fixed substrings that the code only ever     *)
(*    treats as a whole ("node_modules/", the id prefixes, URLs).          *)
(*  - An optional value (T | undefined) is a sequence of length <= 1:      *)
(*    undefined is << >>, the value v is <<v>>.                            *)
(*  - A JSON value is a record [t, s, b, ref, a]; an object value points   *)
(*    into a heap of objects, so that object identity (the visited set)    *)
(*    and shared or cyclic documents can be expressed.  An object is the   *)
(*    sequence of its <<key, value>> entries in insertion order.           *)
(***************************************************************************)
EXTENDS Integers, Sequences, FiniteSets, TLC

VARIABLES
    ex,            \* the running call of extractPackages (its locals and the heap)
    run,           \* which call of extractPackages on the document this is (1 or 2)
    first,         \* what the first call returned, once it has returned
    fold,          \* two folds of the same candidates, in two orders
    packageString, \* Home: the text of the input box
    packages,      \* Home: the shared package list
    error,         \* Home: the error message
    effects,       \* Home: the runs of the effect, the last one being the live one
    calls,         \* the network calls issued so far
    calc           \* one application of a helper function: its arguments and result

(***************************************************************************)
(* Strings                                                                 *)
(***************************************************************************)
undefined == << >>

Some(v) == <<v>>

IsDef(o) == o # << >>

\* JavaScript truthiness of a string | undefined: defined and not "".
StrTruthy(o) == o # << >> /\ o[1] # << >>

\* The order of the characters under localeCompare (the root collation:
\* white space, punctuation, digits, letters), for the characters used.
Collation == <<" ", "_", "-", ".", "@", "/", "^", "|", "0", "1", "2", "3", "a", "b", "c", "x", "y">>

Rank(tok) ==
    IF \E i \in 1..Len(Collation) : Collation[i] = tok
    THEN CHOOSE i \in 1..Len(Collation) : Collation[i] = tok
    ELSE Len(Collation) + 1

RECURSIVE localeCompare(_, _)
localeCompare(a, b) ==
    IF a = << >> /\ b = << >> THEN 0
    ELSE IF a = << >> THEN -1
    ELSE IF b = << >> THEN 1
    ELSE IF Rank(Head(a)) < Rank(Head(b)) THEN -1
    ELSE IF Rank(Head(a)) > Rank(Head(b)) THEN 1
    ELSE localeCompare(Tail(a), Tail(b))

RECURSIVE TrimStart(_)
TrimStart(s) == IF s # << >> /\ Head(s) = " " THEN TrimStart(Tail(s)) ELSE s

RECURSIVE TrimEnd(_)
TrimEnd(s) ==
    IF s # << >> /\ s[Len(s)] = " " THEN TrimEnd(SubSeq(s, 1, Len(s) - 1)) ELSE s

\* String.prototype.trim
Trim(s) == TrimEnd(TrimStart(s))

\* Array.prototype.sort((a, b) => a.localeCompare(b)) on strings: insertion
\* into a sorted prefix, equal elements kept in their order (the sort is stable).
RECURSIVE InsertString(_, _)
InsertString(x, sorted) ==
    IF sorted = << >> THEN <<x>>
    ELSE IF localeCompare(x, Head(sorted)) < 0 THEN <<x>> \o sorted
    ELSE <<Head(sorted)>> \o InsertString(x, Tail(sorted))

RECURSIVE SortStrings(_)
SortStrings(s) ==
    IF s = << >> THEN << >>
    ELSE InsertString(s[Len(s)], SortStrings(SubSeq(s, 1, Len(s) - 1)))

\* Array.prototype.join(sep) on strings
RECURSIVE Join(_, _)
Join(parts, sep) ==
    IF parts = << >> THEN << >>
    ELSE IF Len(parts) = 1 THEN parts[1]
    ELSE parts[1] \o sep \o Join(Tail(parts), sep)

\* Array.from(new Set(s)): the first occurrence of each element, in order.
RECURSIVE Unique(_)
Unique(s) ==
    IF s = << >> THEN << >>
    ELSE LET init == Unique(SubSeq(s, 1, Len(s) - 1))
             x == s[Len(s)]
         IN IF \E i \in 1..Len(init) : init[i] = x THEN init ELSE Append(init, x)

SeqFilterDefined(parts) ==
    LET RECURSIVE go(_)
        go(p) ==
            IF p = << >> THEN << >>
            ELSE IF IsDef(Head(p)) /\ Trim(Head(p)[1]) # << >>
                 THEN <<Head(p)[1]>> \o go(Tail(p))
                 ELSE go(Tail(p))
    IN go(parts)

(***************************************************************************)
(* JSON values and objects                                                 *)
(***************************************************************************)
JValue(t, s, b, ref, a) == [t |-> t, s |-> s, b |-> b, ref |-> ref, a |-> a]

JUndefined == JValue("undefined", << >>, FALSE, 0, << >>)

JNull == JValue("null", << >>, FALSE, 0, << >>)

JNumber == JValue("number", << >>, FALSE, 0, << >>)

JString(s) == JValue("string", s, FALSE, 0, << >>)

JBoolean(b) == JValue("boolean", << >>, b, 0, << >>)

JObject(ref) == JValue("object", << >>, FALSE, ref, << >>)

JArray(items) == JValue("array", << >>, FALSE, 0, items)

\* Truthiness of a value, as in `if (packagesSection)`; the only number is non-zero.
Truthy(v) ==
    CASE v.t = "string" -> v.s # << >>
      [] v.t = "boolean" -> v.b
      [] v.t \in {"object", "array", "number"} -> TRUE
      [] OTHER -> FALSE

\* obj[key] on the entries of an object
Get(entries, key) ==
    IF \E i \in 1..Len(entries) : entries[i][1] = key
    THEN entries[CHOOSE i \in 1..Len(entries) : entries[i][1] = key][2]
    ELSE JUndefined

HasKey(entries, key) == \E i \in 1..Len(entries) : entries[i][1] = key

Keys(entries) == [i \in 1..Len(entries) |-> entries[i][1]]

\* The keys of an array are its indices, as strings.
IndexKey(i) == <<CASE i = 1 -> "0" [] i = 2 -> "1" [] i = 3 -> "2" [] OTHER -> "3">>

\* Object.entries(value) for a value that isRecord
EntriesOf(heap, v) ==
    IF v.t = "object" THEN heap[v.ref]
    ELSE [i \in 1..Len(v.a) |-> <<IndexKey(i), v.a[i]>>]

\* Mutant of Spread: a's value stays where both have the key.
Spread_FirstWins(a, b) ==
    LET RECURSIVE rest(_)
        rest(e) ==
            IF e = << >> THEN << >>
            ELSE IF HasKey(a, Head(e)[1]) THEN rest(Tail(e))
                 ELSE <<Head(e)>> \o rest(Tail(e))
    IN a \o rest(b)

\* { ...a, ...b }: a's keys in a's order with b's values where b has the key,
\* then b's other keys in b's order.
Spread(a, b) ==
    LET over == [i \in 1..Len(a) |->
                    IF HasKey(b, a[i][1]) THEN <<a[i][1], Get(b, a[i][1])>> ELSE a[i]]
        RECURSIVE rest(_)
        rest(e) ==
            IF e = << >> THEN << >>
            ELSE IF HasKey(a, Head(e)[1]) THEN rest(Tail(e))
                 ELSE <<Head(e)>> \o rest(Tail(e))
    IN over \o rest(b)

K(name) == <<name>>

(***************************************************************************)
(* extractPackages: the helpers                                            *)
(***************************************************************************)
isRecord(v) == v.t \in {"object", "array"}

asString(v) == IF v.t = "string" THEN Some(v.s) ELSE undefined

asBoolean(v) == IF v.t = "boolean" THEN Some(v.b) ELSE undefined

keysOf(heap, v) ==
    IF ~isRecord(v) THEN undefined
    ELSE LET entries == Keys(EntriesOf(heap, v))
         IN IF Len(entries) > 0 THEN Some(SortStrings(entries)) ELSE undefined

arrayOfStrings(v) ==
    IF v.t # "array" THEN undefined
    ELSE LET RECURSIVE filter(_)
             filter(items) ==
                 IF items = << >> THEN << >>
                 ELSE IF Head(items).t = "string"
                      THEN <<Head(items).s>> \o filter(Tail(items))
                      ELSE filter(Tail(items))
             filtered == filter(v.a)
         IN IF Len(filtered) > 0 THEN Some(filtered) ELSE undefined

\* packagePath.split("node_modules/")
RECURSIVE SplitNodeModules(_, _)
SplitNodeModules(s, cur) ==
    IF s = << >> THEN <<cur>>
    ELSE IF Head(s) = "node_modules/" THEN <<cur>> \o SplitNodeModules(Tail(s), << >>)
    ELSE SplitNodeModules(Tail(s), Append(cur, Head(s)))

deriveNameFromPath(packagePath) ==
    IF ~StrTruthy(packagePath) THEN undefined
    ELSE LET split == SplitNodeModules(packagePath[1], << >>)
             segments == SelectSeq(split, LAMBDA seg : seg # << >>)
         IN IF Len(segments) = 0 THEN undefined
            ELSE LET last == segments[Len(segments)]
                 IN Some(IF last[Len(last)] = "/"
                         THEN SubSeq(last, 1, Len(last) - 1)
                         ELSE last)

CounterToken(n) == CASE n = 1 -> "1" [] n = 2 -> "2" [] n = 3 -> "3" [] OTHER -> "0"

\* createId yields the id and the counter it leaves behind.
createId(prefix, parts, idCounter) ==
    LET slug == Join(SeqFilterDefined(parts), <<"|">>)
    IN IF slug # << >>
       THEN [id |-> <<prefix, ":">> \o slug, idCounter |-> idCounter]
       ELSE [id |-> <<prefix, ":", "entry-", CounterToken(idCounter + 1)>>,
             idCounter |-> idCounter + 1]

\* Mutant of mergeStringArrays: a non-empty incoming list replaces the
\* existing one instead of being united with it.
mergeStringArrays_Replace(existing, incoming) ==
    IF ~IsDef(incoming) \/ Len(incoming[1]) = 0 THEN existing ELSE incoming

mergeStringArrays(existing, incoming) ==
    IF ~IsDef(incoming) \/ Len(incoming[1]) = 0 THEN existing
    ELSE IF ~IsDef(existing) \/ Len(existing[1]) = 0 THEN incoming
    ELSE Some(SortStrings(Unique(existing[1] \o incoming[1])))

(***************************************************************************)
(* PackageInfo.  raw is a reference: to the metadata object of the         *)
(* document it was read from (ref # 0), or to an object of its own, made   *)
(* by a literal or a spread (ref = 0, entries in own).                     *)
(***************************************************************************)
RawRef(ref) == [ref |-> ref, own |-> << >>]

RawOwn(entries) == [ref |-> 0, own |-> entries]

\* The entries of the object a raw reference points to.
RawEntries(heap, raw) == IF raw.ref # 0 THEN heap[raw.ref] ELSE raw.own

\* Mutant of mergePackageFields: the source's resolved URL replaces the
\* target's.
mergePackageFields_SourceResolved(heap, target, source) ==
    [target EXCEPT
        !.sources = Unique(target.sources \o source.sources),
        !.version = IF ~StrTruthy(target.version) /\ StrTruthy(source.version)
                    THEN source.version ELSE target.version,
        !.path = IF ~StrTruthy(target.path) /\ StrTruthy(source.path)
                 THEN source.path ELSE target.path,
        !.resolved = IF StrTruthy(source.resolved)
                     THEN source.resolved ELSE target.resolved,
        !.integrity = IF ~StrTruthy(target.integrity) /\ StrTruthy(source.integrity)
                      THEN source.integrity ELSE target.integrity,
        !.dev = IF ~IsDef(target.dev) /\ IsDef(source.dev) THEN source.dev ELSE target.dev,
        !.optional = IF ~IsDef(target.optional) /\ IsDef(source.optional)
                     THEN source.optional ELSE target.optional,
        !.peer = IF ~IsDef(target.peer) /\ IsDef(source.peer) THEN source.peer ELSE target.peer,
        !.extraneous = IF ~IsDef(target.extraneous) /\ IsDef(source.extraneous)
                       THEN source.extraneous ELSE target.extraneous,
        !.dependencies = mergeStringArrays(target.dependencies, source.dependencies),
        !.requires = mergeStringArrays(target.requires, source.requires),
        !.peerDependencies =
            mergeStringArrays(target.peerDependencies, source.peerDependencies),
        !.bundledDependencies =
            mergeStringArrays(target.bundledDependencies, source.bundledDependencies),
        !.raw = RawOwn(Spread(RawEntries(heap, target.raw), RawEntries(heap, source.raw)))]

mergePackageFields(heap, target, source) ==
    [target EXCEPT
        !.sources = Unique(target.sources \o source.sources),
        !.version = IF ~StrTruthy(target.version) /\ StrTruthy(source.version)
                    THEN source.version ELSE target.version,
        !.path = IF ~StrTruthy(target.path) /\ StrTruthy(source.path)
                 THEN source.path ELSE target.path,
        !.resolved = IF ~StrTruthy(target.resolved) /\ StrTruthy(source.resolved)
                     THEN source.resolved ELSE target.resolved,
        !.integrity = IF ~StrTruthy(target.integrity) /\ StrTruthy(source.integrity)
                      THEN source.integrity ELSE target.integrity,
        !.dev = IF ~IsDef(target.dev) /\ IsDef(source.dev) THEN source.dev ELSE target.dev,
        !.optional = IF ~IsDef(target.optional) /\ IsDef(source.optional)
                     THEN source.optional ELSE target.optional,
        !.peer = IF ~IsDef(target.peer) /\ IsDef(source.peer) THEN source.peer ELSE target.peer,
        !.extraneous = IF ~IsDef(target.extraneous) /\ IsDef(source.extraneous)
                       THEN source.extraneous ELSE target.extraneous,
        !.dependencies = mergeStringArrays(target.dependencies, source.dependencies),
        !.requires = mergeStringArrays(target.requires, source.requires),
        !.peerDependencies =
            mergeStringArrays(target.peerDependencies, source.peerDependencies),
        !.bundledDependencies =
            mergeStringArrays(target.bundledDependencies, source.bundledDependencies),
        !.raw = RawOwn(Spread(RawEntries(heap, target.raw), RawEntries(heap, source.raw)))]

\* Mutant of findMatchingId: a record of the same name matches whatever its
\* version.
findMatchingId_ByName(packagesMap, candidate) ==
    IF candidate.name = << >> THEN undefined
    ELSE LET hits == {i \in 1..Len(packagesMap) : packagesMap[i].name = candidate.name}
         IN IF hits = {} THEN undefined
            ELSE Some(packagesMap[CHOOSE i \in hits : \A j \in hits : i <= j].id)

\* The id of the first canonical record (in insertion order) the candidate
\* matches, or undefined.
findMatchingId(packagesMap, candidate) ==
    IF candidate.name = << >> THEN undefined
    ELSE LET matches(existing) ==
                 /\ existing.name = candidate.name
                 /\ (~StrTruthy(candidate.version) \/ existing.version = candidate.version)
             hits == {i \in 1..Len(packagesMap) : matches(packagesMap[i])}
         IN IF hits = {} THEN undefined
            ELSE Some(packagesMap[CHOOSE i \in hits : \A j \in hits : i <= j].id)

\* packagesMap.get(id): the position of the record stored under the id, or 0.
MapIndex(packagesMap, id) ==
    IF \E i \in 1..Len(packagesMap) : packagesMap[i].id = id
    THEN CHOOSE i \in 1..Len(packagesMap) : packagesMap[i].id = id
    ELSE 0

\* Mutant of mergePackageInfo: the raw bag is merged into the target's raw
\* object in place (Object.assign), which is the document's own object.
mergePackageInfo_InPlace(st, candidate) ==
    LET found == findMatchingId(st.packagesMap, candidate)
        targetId == IF IsDef(found) THEN found[1] ELSE candidate.id
        at == MapIndex(st.packagesMap, targetId)
        target == st.packagesMap[at]
        bag == Spread(RawEntries(st.heap, target.raw), RawEntries(st.heap, candidate.raw))
    IN IF at = 0
       THEN [st EXCEPT !.packagesMap = Append(@, [candidate EXCEPT !.id = targetId])]
       ELSE [st EXCEPT
                !.packagesMap[at] =
                    [mergePackageFields(st.heap, @, candidate) EXCEPT
                        !.raw = IF target.raw.ref # 0 THEN target.raw ELSE RawOwn(bag)],
                !.heap = IF target.raw.ref # 0
                         THEN [st.heap EXCEPT ![target.raw.ref] = bag]
                         ELSE st.heap]

mergePackageInfo(st, candidate) ==
    LET found == findMatchingId(st.packagesMap, candidate)
        targetId == IF IsDef(found) THEN found[1] ELSE candidate.id
        at == MapIndex(st.packagesMap, targetId)
    IN IF at = 0
       THEN [st EXCEPT !.packagesMap = Append(@, [candidate EXCEPT !.id = targetId])]
       ELSE [st EXCEPT !.packagesMap[at] = mergePackageFields(st.heap, @, candidate)]

\* createCandidate yields [made, candidate, idCounter]; made is FALSE when the
\* code returns undefined.  infoRecord is the entries of the metadata object
\* and raw the reference to it.
createCandidate(heap, source, nameInput, infoRecord, raw, path, idCounter) ==
    LET infoName == asString(Get(infoRecord, K("name")))
        name == IF IsDef(nameInput) THEN nameInput[1]
                ELSE IF IsDef(infoName) THEN infoName[1] ELSE << >>
        trimmedName == Trim(name)
        version == asString(Get(infoRecord, K("version")))
        primary == arrayOfStrings(Get(infoRecord, K("bundledDependencies")))
        made == createId(source, <<path, Some(trimmedName), version>>, idCounter)
    IN IF trimmedName = << >>
       THEN [made |-> FALSE, candidate |-> << >>, idCounter |-> idCounter]
       ELSE [made |-> TRUE,
             idCounter |-> made.idCounter,
             candidate |->
               [id |-> made.id,
                name |-> trimmedName,
                version |-> version,
                resolved |-> asString(Get(infoRecord, K("resolved"))),
                integrity |-> asString(Get(infoRecord, K("integrity"))),
                dev |-> asBoolean(Get(infoRecord, K("dev"))),
                optional |-> asBoolean(Get(infoRecord, K("optional"))),
                peer |-> asBoolean(Get(infoRecord, K("peer"))),
                extraneous |-> asBoolean(Get(infoRecord, K("extraneous"))),
                path |-> path,
                dependencies |-> keysOf(heap, Get(infoRecord, K("dependencies"))),
                requires |-> keysOf(heap, Get(infoRecord, K("requires"))),
                peerDependencies |-> keysOf(heap, Get(infoRecord, K("peerDependencies"))),
                bundledDependencies |->
                    IF IsDef(primary) THEN primary
                    ELSE arrayOfStrings(Get(infoRecord, K("bundleDependencies"))),
                sources |-> <<source>>,
                raw |-> raw,
                loading |-> TRUE,
                isExplicit |-> undefined,
                localOnly |-> undefined,
                npmUrl |-> undefined,
                humanReadableNpmUrl |-> undefined,
                gitUrl |-> undefined,
                lastCommitDate |-> undefined]]

(***************************************************************************)
(* extractPackages: the traversal, one entry of one loop at a time.        *)
(* The state st of a call holds its locals: packagesMap (a Map, in         *)
(* insertion order), visited, idCounter, explicitDeps, and the stack of    *)
(* the loops of collectPackages / collectDependencies that are running     *)
(* (the innermost first), each with the entries it still has to visit.     *)
(* expansions counts, per metadata object, how often its nested            *)
(* dependencies were expanded, and iterations the loop iterations run.     *)
(***************************************************************************)
Frame(fn, entries) == [fn |-> fn, entries |-> entries]

\* The loops a call of collectPackages(v) / collectDependencies(v) starts:
\* none when v is not a record or has no entry.
Call(heap, fn, v) ==
    IF isRecord(v) /\ Len(EntriesOf(heap, v)) > 0
    THEN <<Frame(fn, EntriesOf(heap, v))>>
    ELSE << >>

\* Loops that have no entry left have returned.
RECURSIVE Unwind(_)
Unwind(stack) ==
    IF stack # << >> /\ Head(stack).entries = << >> THEN Unwind(Tail(stack)) ELSE stack

\* The state of a fresh call of extractPackages(lockFile) on the heap.
NewCall(heap, lockFile) ==
    [heap |-> heap,
     lockFile |-> lockFile,
     pc |-> "start",
     packagesMap |-> << >>,
     visited |-> {},
     idCounter |-> 0,
     explicitDeps |-> {},
     stack |-> << >>,
     expansions |-> [o \in DOMAIN heap |-> 0],
     iterations |-> 0,
     result |-> << >>]

\* Object.keys(v) as a set when v isRecord, else nothing (lines 810-815).
KeySet(heap, v) ==
    IF isRecord(v) THEN {Keys(EntriesOf(heap, v))[i] : i \in 1..Len(EntriesOf(heap, v))}
    ELSE {}

\* Mutant of explicitDepsOf: devDependencies are left out.
explicitDepsOf_NoDev(heap, lockRecord) ==
    LET packagesSection == Get(lockRecord, K("packages"))
        rootPackage == IF isRecord(packagesSection)
                       THEN Get(EntriesOf(heap, packagesSection), << >>)
                       ELSE JUndefined
    IN IF isRecord(rootPackage)
       THEN KeySet(heap, Get(EntriesOf(heap, rootPackage), K("dependencies")))
       ELSE {}

\* The root entry's declared names: dependencies and devDependencies of packages[""].
explicitDepsOf(heap, lockRecord) ==
    LET packagesSection == Get(lockRecord, K("packages"))
        rootPackage == IF isRecord(packagesSection)
                       THEN Get(EntriesOf(heap, packagesSection), << >>)
                       ELSE JUndefined
    IN IF isRecord(rootPackage)
       THEN KeySet(heap, Get(EntriesOf(heap, rootPackage), K("dependencies")))
            \cup KeySet(heap, Get(EntriesOf(heap, rootPackage), K("devDependencies")))
       ELSE {}

\* Lines 516-521 and 800-821: the guard, explicitDeps, and the call of
\* collectPackages on the packages section.
Begin(st) ==
    IF ~isRecord(st.lockFile)
    THEN [st EXCEPT !.pc = "return", !.result = << >>]
    ELSE LET lockRecord == EntriesOf(st.heap, st.lockFile)
             packagesSection == Get(lockRecord, K("packages"))
         IN [st EXCEPT
                !.pc = "collectPackages",
                !.explicitDeps = explicitDepsOf(st.heap, lockRecord),
                !.stack = IF Truthy(packagesSection)
                          THEN Call(st.heap, "collectPackages", packagesSection)
                          ELSE << >>]

\* Mutant of Expand: the visited set is not consulted.
Expand_NoVisited(st, info, rest) ==
    LET nestedDeps == Get(EntriesOf(st.heap, info), K("dependencies"))
    IN [st EXCEPT
           !.visited = IF info.t = "object" THEN @ \cup {info.ref} ELSE @,
           !.expansions = IF info.t = "object" THEN [@ EXCEPT ![info.ref] = @ + 1] ELSE @,
           !.stack = Unwind((IF Truthy(nestedDeps)
                             THEN Call(st.heap, "collectDependencies", nestedDeps)
                             ELSE << >>) \o rest)]

\* Lines 757-763 and 790-796: the first visit of a metadata object expands
\* its nested dependencies.
Expand(st, info, rest) ==
    IF info.t = "object" /\ info.ref \in st.visited
    THEN [st EXCEPT !.stack = Unwind(rest)]
    ELSE LET nestedDeps == Get(EntriesOf(st.heap, info), K("dependencies"))
             seen == IF info.t = "object" THEN st.visited \cup {info.ref} ELSE st.visited
             count == IF info.t = "object"
                      THEN [st.expansions EXCEPT ![info.ref] = @ + 1]
                      ELSE st.expansions
         IN [st EXCEPT
                !.visited = seen,
                !.expansions = count,
                !.stack = Unwind((IF Truthy(nestedDeps)
                                  THEN Call(st.heap, "collectDependencies", nestedDeps)
                                  ELSE << >>) \o rest)]

\* The raw reference createCandidate stores for a metadata value.
RawOf(heap, info) == IF info.t = "object" THEN RawRef(info.ref) ELSE RawOwn(EntriesOf(heap, info))

\* Mutant of dependencyCandidate: a value that is not an object gives an
\* empty metadata object, a string too.
dependencyCandidate_NoVersion(st, depName, depInfo) ==
    IF ~isRecord(depInfo)
    THEN createCandidate(st.heap, "dependencies", Some(depName), << >>,
                         RawOwn(<< >>), undefined, st.idCounter)
    ELSE createCandidate(st.heap, "dependencies", Some(depName),
                         EntriesOf(st.heap, depInfo), RawOf(st.heap, depInfo),
                         undefined, st.idCounter)

\* The candidate collectDependencies makes of an entry (lines 742-752): a
\* bare string is the version, any other non-object an empty metadata object.
dependencyCandidate(st, depName, depInfo) ==
    IF ~isRecord(depInfo)
    THEN LET infoObject == IF depInfo.t = "string"
                           THEN <<<<K("version"), depInfo>>>>
                           ELSE << >>
         IN createCandidate(st.heap, "dependencies", Some(depName), infoObject,
                            RawOwn(infoObject), undefined, st.idCounter)
    ELSE createCandidate(st.heap, "dependencies", Some(depName),
                         EntriesOf(st.heap, depInfo), RawOf(st.heap, depInfo),
                         undefined, st.idCounter)

\* One iteration of the loop of collectDependencies (lines 741-764).
collectDependencies(st) ==
    LET top == Head(st.stack)
        depName == Head(top.entries)[1]
        depInfo == Head(top.entries)[2]
        rest == <<Frame(top.fn, Tail(top.entries))>> \o Tail(st.stack)
        c == dependencyCandidate(st, depName, depInfo)
        merged == IF c.made THEN mergePackageInfo(st, c.candidate) ELSE st
    IN IF ~isRecord(depInfo)
       THEN [merged EXCEPT !.idCounter = c.idCounter, !.iterations = @ + 1,
                           !.stack = Unwind(rest)]
       ELSE Expand([merged EXCEPT !.idCounter = c.idCounter, !.iterations = @ + 1],
                      depInfo, rest)

\* The candidate collectPackages makes of an entry whose value is an object
\* (lines 777-784).
packageCandidate(st, packagePath, info) ==
    LET fromPath == deriveNameFromPath(Some(packagePath))
        derivedName == IF IsDef(fromPath) THEN fromPath
                       ELSE asString(Get(EntriesOf(st.heap, info), K("name")))
    IN createCandidate(st.heap, "packages", derivedName,
                       EntriesOf(st.heap, info), RawOf(st.heap, info),
                       IF packagePath # << >> THEN Some(packagePath) ELSE undefined,
                       st.idCounter)

\* One iteration of the loop of collectPackages (lines 772-797).
collectPackages(st) ==
    LET top == Head(st.stack)
        packagePath == Head(top.entries)[1]
        info == Head(top.entries)[2]
        rest == <<Frame(top.fn, Tail(top.entries))>> \o Tail(st.stack)
    IN IF ~isRecord(info)
       THEN [st EXCEPT !.iterations = @ + 1, !.stack = Unwind(rest)]
       ELSE LET c == packageCandidate(st, packagePath, info)
                merged == IF c.made THEN mergePackageInfo(st, c.candidate) ELSE st
            IN Expand([merged EXCEPT !.idCounter = c.idCounter, !.iterations = @ + 1],
                      info, rest)

\* Lines 823-826: collectPackages has returned; the dependencies section.
EnterDependencies(st) ==
    LET dependenciesSection == Get(EntriesOf(st.heap, st.lockFile), K("dependencies"))
    IN [st EXCEPT
           !.pc = "collectDependencies",
           !.stack = IF Truthy(dependenciesSection)
                     THEN Call(st.heap, "collectDependencies", dependenciesSection)
                     ELSE << >>]

\* Mutant of dedupKey: the records are keyed by their id.
dedupKey_ById(pkg) == pkg.id

\* `${pkg.name}__${pkg.version ?? ""}`
dedupKey(pkg) ==
    pkg.name \o <<"_", "_">> \o (IF IsDef(pkg.version) THEN pkg.version[1] ELSE << >>)

\* Lines 832-843: the Map dedupByNameAndVersion, as its keys and values in
\* insertion order.
RECURSIVE dedupByNameAndVersion(_, _, _, _)
dedupByNameAndVersion(heap, fromPackages, explicitDeps, map) ==
    IF fromPackages = << >> THEN map
    ELSE LET pkg == Head(fromPackages)
             key == dedupKey(pkg)
             hits == {i \in 1..Len(map) : map[i].key = key}
         IN IF hits = {}
            THEN dedupByNameAndVersion(heap, Tail(fromPackages), explicitDeps,
                    Append(map, [key |-> key,
                                 value |-> [pkg EXCEPT
                                     !.isExplicit = Some(pkg.name \in explicitDeps)]]))
            ELSE LET at == CHOOSE i \in hits : TRUE
                 IN dedupByNameAndVersion(heap, Tail(fromPackages), explicitDeps,
                        [map EXCEPT ![at].value = mergePackageFields(heap, @, pkg)])

\* Mutant of comparePackages: the versions are not compared.
comparePackages_NameOnly(a, b) == localeCompare(a.name, b.name)

\* The comparator of the final sort (lines 845-854).
comparePackages(a, b) ==
    LET nameCompare == localeCompare(a.name, b.name)
    IN IF nameCompare # 0 THEN nameCompare
       ELSE localeCompare(IF IsDef(a.version) THEN a.version[1] ELSE << >>,
                          IF IsDef(b.version) THEN b.version[1] ELSE << >>)

RECURSIVE InsertPackage(_, _)
InsertPackage(x, sorted) ==
    IF sorted = << >> THEN <<x>>
    ELSE IF comparePackages(x, Head(sorted)) < 0 THEN <<x>> \o sorted
    ELSE <<Head(sorted)>> \o InsertPackage(x, Tail(sorted))

RECURSIVE SortPackages(_)
SortPackages(s) ==
    IF s = << >> THEN << >>
    ELSE InsertPackage(s[Len(s)], SortPackages(SubSeq(s, 1, Len(s) - 1)))

\* Mutant of Finish: the records are not filtered by their origin.
Finish_Unfiltered(st) ==
    LET map == dedupByNameAndVersion(st.heap, st.packagesMap, st.explicitDeps, << >>)
    IN [st EXCEPT
           !.pc = "return",
           !.result = SortPackages([i \in 1..Len(map) |-> map[i].value])]

\* Mutant of Finish: isExplicit is written into the metadata object of the
\* document a record was made of.
Finish_MarksDocument(st) ==
    LET fromPackages ==
            SelectSeq(st.packagesMap,
                      LAMBDA pkg : \E i \in 1..Len(pkg.sources) : pkg.sources[i] = "packages")
        map == dedupByNameAndVersion(st.heap, fromPackages, st.explicitDeps, << >>)
        marked == {fromPackages[i].raw.ref : i \in 1..Len(fromPackages)}
    IN [st EXCEPT
           !.pc = "return",
           !.heap = [r \in DOMAIN st.heap |->
                        IF r \in marked
                        THEN Append(st.heap[r], <<K("isExplicit"), JBoolean(TRUE)>>)
                        ELSE st.heap[r]],
           !.result = SortPackages([i \in 1..Len(map) |-> map[i].value])]

\* Lines 828-854: keep the records attested by the flat table, collapse
\* equal (name, version) keys, sort, return.
Finish(st) ==
    LET fromPackages ==
            SelectSeq(st.packagesMap,
                      LAMBDA pkg : \E i \in 1..Len(pkg.sources) : pkg.sources[i] = "packages")
        map == dedupByNameAndVersion(st.heap, fromPackages, st.explicitDeps, << >>)
    IN [st EXCEPT
           !.pc = "return",
           !.result = SortPackages([i \in 1..Len(map) |-> map[i].value])]

\* One step of a call.
\* The next step of a call.
Step(st) ==
    CASE st.pc = "start" -> Begin(st)
      [] st.pc \in {"collectPackages", "collectDependencies"} /\ st.stack # << >> ->
            IF Head(st.stack).fn = "collectPackages" THEN collectPackages(st)
            ELSE collectDependencies(st)
      [] st.pc = "collectPackages" /\ st.stack = << >> -> EnterDependencies(st)
      [] OTHER -> Finish(st)

\* A call run to its return, each step computed once.  MaxSteps bounds the
\* iteration.
RECURSIVE RunCall(_, _)
RunCall(st, fuel) ==
    IF st.pc = "return" \/ fuel = 0 THEN st
    ELSE CHOOSE end \in {RunCall(next, fuel - 1) : next \in {Step(st)}} : TRUE

(***************************************************************************)
(* The documents.  A fixed pool of metadata objects and dependency maps;   *)
(* a document is a flat table of up to MaxEntries entries drawn from       *)
(* TableEntries (distinct paths, any order), with or without a nested      *)
(* dependencies section.                                                   *)
(***************************************************************************)
MaxEntries == 3

NM == "node_modules/"

UrlX == <<"https://registry.npmjs.org/x/-/x-1.tgz">>

UrlX2 == <<"https://mirror.example/x-1.tgz">>

UrlB == <<"https://registry.npmjs.org/b/-/b-1.tgz">>

UrlY == <<"https://registry.npmjs.org/y/-/y-2.tgz">>

PoolHeap ==
    << \* 1: the root entry packages[""]
       << <<K("name"), JString(<<"a", "b", "c">>)>>,
          <<K("dependencies"), JObject(2)>>,
          <<K("devDependencies"), JObject(3)>> >>,
       \* 2, 3: its dependencies and devDependencies (name -> range)
       << <<K("x"), JString(<<"^", "1">>)>> >>,
       << <<K("b"), JString(<<"1">>)>> >>,
       \* 4: node_modules/x
       << <<K("version"), JString(<<"1">>)>>,
          <<K("resolved"), JString(UrlX)>>,
          <<K("dependencies"), JObject(5)>>,
          <<K("license"), JString(<<"MIT">>)>> >>,
       \* 5: the dependencies of 4, b pinned to the version of 7
       << <<K("b"), JString(<<"1">>)>>, <<K("a"), JNumber>> >>,
       \* 6: node_modules/a/node_modules/x, a second copy of x@1
       << <<K("version"), JString(<<"1">>)>>,
          <<K("resolved"), JString(UrlX2)>>,
          <<K("integrity"), JString(<<"sha512-x">>)>>,
          <<K("dev"), JBoolean(TRUE)>>,
          <<K("bundleDependencies"), JArray(<<JString(<<"y">>), JNumber, JString(<<"b">>)>>)>> >>,
       \* 7: node_modules/b, never downloaded (no resolved)
       << <<K("version"), JString(<<"1">>)>>,
          <<K("optional"), JBoolean(FALSE)>>,
          <<K("peerDependencies"), JObject(2)>> >>,
       \* 8: a workspace entry "x|x" without a version
       << <<K("license"), JString(<<"ISC">>)>> >>,
       \* 9: node_modules/x|x at version "x|x"
       << <<K("version"), JString(<<"x", "|", "x">>)>>,
          <<K("resolved"), JString(UrlB)>> >>,
       \* 10: a workspace entry "x" at version "x|x"
       << <<K("version"), JString(<<"x", "|", "x">>)>>,
          <<K("integrity"), JString(<<"sha512-w">>)>> >>,
       \* 11: the nested dependencies section (lockfile version 1)
       << <<K("x"), JObject(12)>>, <<K("y"), JObject(13)>>, <<K("b"), JString(<<"1">>)>> >>,
       \* 12: x, which requires y and nests it
       << <<K("version"), JString(<<"1">>)>>,
          <<K("requires"), JObject(14)>>,
          <<K("dependencies"), JObject(14)>> >>,
       \* 13: y, which nests x again: 12 -> 14 -> 13 -> 15 -> 12 is a cycle
       << <<K("version"), JString(<<"2">>)>>,
          <<K("dependencies"), JObject(15)>> >>,
       \* 14, 15: the nested maps
       << <<K("y"), JObject(13)>> >>,
       << <<K("x"), JObject(12)>>, <<K(" "), JObject(13)>> >>,
       \* 16: node_modules/y
       << <<K("version"), JString(<<"2">>)>>,
          <<K("resolved"), JString(UrlY)>> >>
    >>

TableEntries ==
    << << << >>, JObject(1) >>,
       << <<NM, "x">>, JObject(4) >>,
       << <<NM, "a", "/", NM, "x">>, JObject(6) >>,
       << <<NM, "b">>, JObject(7) >>,
       << <<"x", "|", "x">>, JObject(8) >>,
       << <<NM, "x", "|", "x">>, JObject(9) >>,
       << <<"x">>, JObject(10) >>,
       << <<NM, "c">>, JString(<<"2">>) >>,
       << <<NM, "y">>, JObject(16) >> >>

TableRef == Len(PoolHeap) + 1

RootRef == Len(PoolHeap) + 2

\* The tables: the injective sequences of at most MaxEntries pool entries.
Tables ==
    UNION {{t \in [1..n -> 1..Len(TableEntries)] :
                \A i, j \in 1..n : i # j => t[i] # t[j]} : n \in 0..MaxEntries}

\* The sections a document may have besides its table.
Sections == {<< >>, << <<K("dependencies"), JObject(11)>> >>}

Document(table, section) ==
    [heap |-> PoolHeap
              \o << [i \in 1..Len(table) |-> TableEntries[table[i]]] >>
              \o << << <<K("packages"), JObject(TableRef)>> >> \o section >>,
     lockFile |-> JObject(RootRef)]

\* The document whose flat table has a root entry declaring x at the range
\* "^1.0.0" and the entry node_modules/x at version "1.0.0" with a resolved
\* URL, the root entry first or last.
Declared(rootFirst) ==
    LET base == Len(PoolHeap)
        root == << << >>, JObject(base + 1) >>
        entry == << <<NM, "x">>, JObject(base + 3) >>
    IN [heap |-> PoolHeap
                 \o << << <<K("dependencies"), JObject(base + 2)>> >>,
                       << <<K("x"), JString(<<"^", "1", ".", "0", ".", "0">>)>> >>,
                       << <<K("version"), JString(<<"1", ".", "0", ".", "0">>)>>,
                          <<K("resolved"), JString(UrlX)>> >>,
                       IF rootFirst THEN <<root, entry>> ELSE <<entry, root>>,
                       << <<K("packages"), JObject(base + 4)>> >> >>,
        lockFile |-> JObject(base + 5)]

\* The document whose flat table has the one entry node_modules/a, an alias
\* of b: the entry carries the name "b".
Aliased ==
    LET base == Len(PoolHeap)
    IN [heap |-> PoolHeap
                 \o << << <<K("name"), JString(K("b"))>>,
                          <<K("version"), JString(<<"1">>)>>,
                          <<K("resolved"), JString(UrlB)>> >>,
                       << << <<NM, "a">>, JObject(base + 1) >> >>,
                       << <<K("packages"), JObject(base + 2)>> >> >>,
        lockFile |-> JObject(base + 3)]

\* The document without a flat table whose nested section has a bare
\* string, an empty string, a number, null and a nameless key beside two
\* objects, one under a key of white space with a name field of its own:
\* {"dependencies": {"s": "2", "e": "", "n": 0.5, "z": null, " ": "2",
\* "  ": {"name": "y", "version": "2"}, "x": {...}}}.
Bare ==
    LET base == Len(PoolHeap)
    IN [heap |-> PoolHeap
                 \o << << <<K("name"), JString(K("y"))>>,
                          <<K("version"), JString(<<"2">>)>> >>,
                       << <<K("s"), JString(<<"2">>)>>,
                          <<K("e"), JString(<< >>)>>,
                          <<K("n"), JNumber>>,
                          <<K("z"), JNull>>,
                          <<K(" "), JString(<<"2">>)>>,
                          <<<<" ", " ">>, JObject(base + 1)>>,
                          <<K("x"), JObject(12)>> >>,
                       << <<K("dependencies"), JObject(base + 2)>> >> >>,
        lockFile |-> JObject(base + 3)]

\* The document whose flat table has an entry under a path of white space
\* with a name field of its own, and the entry node_modules/x:
\* {"packages": {" ": {"name": "y", "version": "2"}, "node_modules/x": {...}}}.
Blank ==
    LET base == Len(PoolHeap)
    IN [heap |-> PoolHeap
                 \o << << <<K("name"), JString(K("y"))>>,
                          <<K("version"), JString(<<"2">>)>> >>,
                       << <<K(" "), JObject(base + 1)>>,
                          <<<<NM, "x">>, JObject(4)>> >>,
                       << <<K("packages"), JObject(base + 2)>> >> >>,
        lockFile |-> JObject(base + 3)]

\* Every table alone, the short tables with a nested section, the declared,
\* the aliased, the bare and the blank document, a document without a
\* packages section, and a document that is not an object.
Documents ==
    {Document(t, << >>) : t \in Tables}
    \cup {Document(t, s) : t \in {u \in Tables : Len(u) <= 1}, s \in Sections}
    \cup {Declared(rootFirst) : rootFirst \in BOOLEAN}
    \cup {Aliased, Bare, Blank}
    \cup {[heap |-> PoolHeap \o << << >> >> \o << << <<K("dependencies"), JObject(11)>> >> >>,
           lockFile |-> JObject(RootRef)],
          [heap |-> PoolHeap, lockFile |-> JNull]}

(***************************************************************************)
(* extractPackages called twice on a document                              *)
(***************************************************************************)
exVars == <<ex, run, first>>

pageVars == <<packageString, packages, error, effects, calls>>

vars == <<ex, run, first, fold, packageString, packages, error, effects, calls, calc>>

\* The values of the variables a specification does not use.
NoExtract == ex = [pc |-> "none"] /\ run = 0 /\ first = << >>

NoFold == fold = [k |-> 0]

NoCalc == calc = [fn |-> "none"]

NoPage ==
    /\ packageString = "mount"
    /\ packages = << >>
    /\ error = ""
    /\ effects = << >>
    /\ calls = {}

\* A returned list with every raw reference replaced by the entries of the
\* object it points to.
Snapshot(heap, pkgs) ==
    [i \in 1..Len(pkgs) |-> [pkgs[i] EXCEPT !.raw = RawOwn(RawEntries(heap, @))]]

InitExtract ==
    /\ \E d \in Documents : ex = NewCall(d.heap, d.lockFile)
    /\ run = 1
    /\ first = << >>
    /\ NoFold
    /\ NoPage
    /\ NoCalc

Start ==
    /\ ex.pc = "start"
    /\ ex' = Begin(ex)
    /\ UNCHANGED <<run, first, fold, pageVars, calc>>

CollectPackagesEntry ==
    /\ ex.pc \in {"collectPackages", "collectDependencies"}
    /\ ex.stack # << >>
    /\ Head(ex.stack).fn = "collectPackages"
    /\ ex' = collectPackages(ex)
    /\ UNCHANGED <<run, first, fold, pageVars, calc>>

CollectDependenciesEntry ==
    /\ ex.pc \in {"collectPackages", "collectDependencies"}
    /\ ex.stack # << >>
    /\ Head(ex.stack).fn = "collectDependencies"
    /\ ex' = collectDependencies(ex)
    /\ UNCHANGED <<run, first, fold, pageVars, calc>>

DependenciesSection ==
    /\ ex.pc = "collectPackages"
    /\ ex.stack = << >>
    /\ ex' = EnterDependencies(ex)
    /\ UNCHANGED <<run, first, fold, pageVars, calc>>

Return ==
    /\ ex.pc = "collectDependencies"
    /\ ex.stack = << >>
    /\ ex' = Finish(ex)
    /\ UNCHANGED <<run, first, fold, pageVars, calc>>

\* The caller keeps the first result and calls again on the same document.
CallAgain ==
    /\ ex.pc = "return"
    /\ run = 1
    /\ first' = Some(Snapshot(ex.heap, ex.result))
    /\ run' = 2
    /\ ex' = NewCall(ex.heap, ex.lockFile)
    /\ UNCHANGED <<fold, pageVars, calc>>

NextExtract ==
    \/ Start
    \/ CollectPackagesEntry
    \/ CollectDependenciesEntry
    \/ DependenciesSection
    \/ Return
    \/ CallAgain

SpecExtract == InitExtract /\ [][NextExtract]_vars

(***************************************************************************)
(* The fold alone: the same candidates merged into the canonical map in    *)
(* two orders.  The candidates are those the traversal makes of entries    *)
(* of the pool.                                                            *)
(***************************************************************************)
MaxFold == 3

FoldCandidates ==
    LET st == NewCall(PoolHeap, JNull)
        table(n) == packageCandidate(st, TableEntries[n][1], TableEntries[n][2]).candidate
        nested(n) == dependencyCandidate(st, PoolHeap[11][n][1], PoolHeap[11][n][2]).candidate
    IN <<table(1), table(2), table(3), table(4), nested(1), nested(3),
         dependencyCandidate(st, K("x"), JString(<<"^", "1">>)).candidate,
         dependencyCandidate(st, K("x"), JObject(2)).candidate>>

\* The orders: the injective sequences of at most MaxFold candidates.
FoldOrders ==
    UNION {{t \in [1..n -> 1..Len(FoldCandidates)] :
                \A i, j \in 1..n : i # j => t[i] # t[j]} : n \in 0..MaxFold}

InitFold ==
    /\ \E one, two \in FoldOrders :
          /\ {one[i] : i \in DOMAIN one} = {two[i] : i \in DOMAIN two}
          /\ fold = [k |-> 0,
                     one |-> [i \in DOMAIN one |-> FoldCandidates[one[i]]],
                     two |-> [i \in DOMAIN two |-> FoldCandidates[two[i]]],
                     mapOne |-> << >>,
                     mapTwo |-> << >>]
    /\ NoExtract
    /\ NoPage
    /\ NoCalc

\* The next candidate of each order is merged into the map of that order.
FoldNext ==
    /\ fold.k < Len(fold.one)
    /\ fold' = [fold EXCEPT
          !.k = @ + 1,
          !.mapOne = mergePackageInfo([heap |-> PoolHeap, packagesMap |-> @],
                                      fold.one[fold.k + 1]).packagesMap,
          !.mapTwo = mergePackageInfo([heap |-> PoolHeap, packagesMap |-> @],
                                      fold.two[fold.k + 1]).packagesMap]
    /\ UNCHANGED <<exVars, pageVars, calc>>

NextFold == FoldNext

SpecFold == InitFold /\ [][NextFold]_vars

(***************************************************************************)
(* Claims about the fold                                                   *)
(***************************************************************************)
SeqSet(seq) == {seq[i] : i \in DOMAIN seq}

OptSet(opt) == IF IsDef(opt) THEN SeqSet(opt[1]) ELSE {}

\* A record as the claim compares it: the scalar fields and flags, the
\* set-valued fields and origin tags as sets, the raw bag as a map.  The id
\* is the id of whichever candidate came first and is not compared.
CanonFields(heap, pkg) ==
    [name |-> pkg.name, version |-> pkg.version, path |-> pkg.path,
     resolved |-> pkg.resolved, integrity |-> pkg.integrity,
     dev |-> pkg.dev, optional |-> pkg.optional, peer |-> pkg.peer,
     extraneous |-> pkg.extraneous,
     dependencies |-> OptSet(pkg.dependencies), requires |-> OptSet(pkg.requires),
     peerDependencies |-> OptSet(pkg.peerDependencies),
     bundledDependencies |-> OptSet(pkg.bundledDependencies),
     sources |-> SeqSet(pkg.sources),
     rawKeys |-> SeqSet(Keys(RawEntries(heap, pkg.raw)))]

Canon(heap, pkg) == <<CanonFields(heap, pkg), SeqSet(RawEntries(heap, pkg.raw))>>

FoldDone == fold.k > 0 /\ fold.k = Len(fold.one)

\* Two candidates the fold merges into one record whatever the order.
SameRecord(a, b) ==
    /\ a.name = b.name
    /\ \/ a.version = b.version
       \/ ~StrTruthy(a.version) /\ ~StrTruthy(b.version)

ScalarOK(x, y) == x = y \/ StrTruthy(x) # StrTruthy(y)

FlagOK(x, y) == x = y \/ ~IsDef(x) \/ ~IsDef(y)

\* No two candidates conflict: candidates of one name all carry a version
\* or none does, two candidates of one record never carry two different
\* non-empty values of a scalar or two different values of a flag, and
\* candidates of different records have different ids.
ConflictFree(cands) ==
    \A i, j \in DOMAIN cands :
        LET a == cands[i]
            b == cands[j]
        IN /\ a.name = b.name => StrTruthy(a.version) = StrTruthy(b.version)
           /\ SameRecord(a, b) =>
                 /\ ScalarOK(a.version, b.version)
                 /\ ScalarOK(a.path, b.path)
                 /\ ScalarOK(a.resolved, b.resolved)
                 /\ ScalarOK(a.integrity, b.integrity)
                 /\ FlagOK(a.dev, b.dev)
                 /\ FlagOK(a.optional, b.optional)
                 /\ FlagOK(a.peer, b.peer)
                 /\ FlagOK(a.extraneous, b.extraneous)
           /\ ~SameRecord(a, b) => a.id # b.id

\* No two candidates of one record carry different values of a raw key.
RawAgrees(cands) ==
    \A i, j \in DOMAIN cands :
        SameRecord(cands[i], cands[j]) =>
            LET ra == RawEntries(PoolHeap, cands[i].raw)
                rb == RawEntries(PoolHeap, cands[j].raw)
            IN \A key \in SeqSet(Keys(ra)) \cap SeqSet(Keys(rb)) :
                   Get(ra, key) = Get(rb, key)

\* C4 as stated: folding the same candidates in any order yields the same
\* final canonical set, the same records with the same version, path,
\* resolved, integrity, flags, set-valued fields, raw bag and origin tags.
C4_AnyOrderSameSet ==
    FoldDone =>
        {Canon(PoolHeap, fold.mapOne[i]) : i \in DOMAIN fold.mapOne}
            = {Canon(PoolHeap, fold.mapTwo[i]) : i \in DOMAIN fold.mapTwo}

\* C4 amended: when no two candidates conflict, folding them in any order
\* yields the same records with the same version, path, resolved, integrity,
\* flags, set-valued fields, origin tags and raw keys, and the same raw
\* values too when the candidates of one record agree on their raw keys.
C4_ConflictFreeSameSet ==
    (FoldDone /\ ConflictFree(fold.one)) =>
        /\ {CanonFields(PoolHeap, fold.mapOne[i]) : i \in DOMAIN fold.mapOne}
              = {CanonFields(PoolHeap, fold.mapTwo[i]) : i \in DOMAIN fold.mapTwo}
        /\ Len(fold.mapOne) = Len(fold.mapTwo)
        /\ RawAgrees(fold.one) =>
              {Canon(PoolHeap, fold.mapOne[i]) : i \in DOMAIN fold.mapOne}
                  = {Canon(PoolHeap, fold.mapTwo[i]) : i \in DOMAIN fold.mapTwo}

\* Two different orders of candidates that do not conflict have been folded,
\* and a record was merged from a table entry and a nested entry, its
\* dependency names united.
C4_Witness ==
    /\ FoldDone
    /\ fold.one # fold.two
    /\ ConflictFree(fold.one)
    /\ \E i \in DOMAIN fold.mapOne :
          /\ Len(fold.mapOne[i].sources) = 2
          /\ \E j \in DOMAIN fold.one :
                /\ IsDef(fold.one[j].dependencies)
                /\ fold.mapOne[i].dependencies # fold.one[j].dependencies
                /\ SameRecord(fold.one[j], fold.mapOne[i])

(***************************************************************************)
(* Claims about extractPackages                                            *)
(***************************************************************************)
VersionOrEmpty(pkg) == IF IsDef(pkg.version) THEN pkg.version[1] ELSE << >>

RootDeclares(name) ==
    LET lockRecord == EntriesOf(ex.heap, ex.lockFile)
        table == Get(lockRecord, K("packages"))
        root == IF table.t = "object" THEN Get(ex.heap[table.ref], << >>) ELSE JUndefined
        declared(field) ==
            /\ root.t = "object"
            /\ Get(ex.heap[root.ref], K(field)).t = "object"
            /\ HasKey(ex.heap[Get(ex.heap[root.ref], K(field)).ref], name)
    IN declared("dependencies") \/ declared("devDependencies")

\* C8: every returned record has isExplicit = true exactly when its name is
\* a key of the root entry's dependencies or devDependencies.
C8_ExplicitIffRootDeclares ==
    ex.pc = "return" =>
        \A i \in 1..Len(ex.result) :
            ex.result[i].isExplicit = Some(RootDeclares(ex.result[i].name))

\* A returned list with an explicit record (declared by devDependencies only),
\* a record that is not, a root entry that is not the first entry of the
\* table, and a record that absorbed a duplicate.
C8_Witness ==
    /\ ex.pc = "return"
    /\ isRecord(ex.lockFile)
    /\ LET table == Get(EntriesOf(ex.heap, ex.lockFile), K("packages"))
       IN /\ table.t = "object"
          /\ Len(ex.heap[table.ref]) >= 2
          /\ ex.heap[table.ref][1][1] # << >>
    /\ \E i, j \in 1..Len(ex.result) :
          /\ ex.result[i].isExplicit = Some(TRUE)
          /\ ex.result[i].name = K("b")
          /\ Len(ex.result[i].sources) = 2
          /\ ex.result[j].isExplicit = Some(FALSE)

\* The number of entries of the maps a call can iterate: the table, the
\* dependencies section, and the nested dependencies of each object once.
RECURSIVE SumNested(_, _)
SumNested(heap, o) ==
    IF o = 0 THEN 0
    ELSE SumNested(heap, o - 1)
         + (LET nested == Get(heap[o], K("dependencies"))
            IN IF isRecord(nested) THEN Len(EntriesOf(heap, nested)) ELSE 0)

IterationBound(heap, lockFile) ==
    IF ~isRecord(lockFile) THEN 0
    ELSE LET section(name) == Get(EntriesOf(heap, lockFile), K(name))
             size(v) == IF isRecord(v) THEN Len(EntriesOf(heap, v)) ELSE 0
         IN size(section("packages")) + size(section("dependencies"))
            + SumNested(heap, Len(heap))

\* C9: extraction terminates, also on a cyclic or shared nested tree, and
\* the nested dependencies of a metadata object are expanded at most once
\* per call: a call that has not returned can take a step, and it runs at
\* most as many loop iterations as the document has entries.
C9_TerminatesExpandingOnce ==
    /\ \A o \in DOMAIN ex.expansions : ex.expansions[o] <= 1
    /\ ex.iterations <= IterationBound(ex.heap, ex.lockFile)
    /\ ex.pc # "return" =>
          \/ ex.pc = "start"
          \/ ex.pc \in {"collectPackages", "collectDependencies"}

\* A call has returned after meeting the visited object 12 a second time
\* (through the cycle 12 -> 13 -> 12) and the shared object 13 twice.
C9_Witness ==
    /\ ex.pc = "return"
    /\ ex.expansions[12] = 1
    /\ ex.expansions[13] = 1
    /\ {12, 13} \subseteq ex.visited

\* C10: the second call of extractPackages on a document returns what the
\* first returned: the same records, fields and order.
C10_SecondCallSameResult ==
    (ex.pc = "return" /\ run = 2) => Some(Snapshot(ex.heap, ex.result)) = first

\* The second call has returned a list of at least two records, one of them
\* merged from two entries.
C10_Witness ==
    /\ ex.pc = "return"
    /\ run = 2
    /\ Len(ex.result) >= 2
    /\ \E i \in 1..Len(ex.result) : ex.result[i].raw.ref = 0

\* The step is an iteration of a loop of the traversal: it merges at most
\* one candidate into packagesMap.
Folding ==
    /\ ex.pc \in {"collectPackages", "collectDependencies"}
    /\ ex'.pc \in {"collectPackages", "collectDependencies"}

\* C11: once a record is in packagesMap, no merge of a later candidate
\* changes its name or its version.
C11_IdentityNeverChanges ==
    [][Folding =>
          \A i \in DOMAIN ex.packagesMap :
              /\ ex'.packagesMap[i].name = ex.packagesMap[i].name
              /\ ex'.packagesMap[i].version = ex.packagesMap[i].version]_vars

\* The names of the candidates collectPackages makes of the flat table of
\* the document.
TableNames(heap, lockFile) ==
    LET table == IF isRecord(lockFile)
                 THEN Get(EntriesOf(heap, lockFile), K("packages"))
                 ELSE JUndefined
        entries == IF isRecord(table) THEN EntriesOf(heap, table) ELSE << >>
        made(e) == packageCandidate(NewCall(heap, lockFile), e[1], e[2])
    IN {made(entries[i]).candidate.name :
            i \in {j \in 1..Len(entries) : isRecord(entries[j][2]) /\ made(entries[j]).made}}

\* C12: every returned record carries the origin tag "packages" and the
\* name of an entry of the flat table; a document without a flat table
\* returns the empty list whatever its nested tree holds.
C12_OnlyTableRecordsReturned ==
    ex.pc = "return" =>
        /\ \A i \in 1..Len(ex.result) :
              /\ \E k \in 1..Len(ex.result[i].sources) : ex.result[i].sources[k] = "packages"
              /\ ex.result[i].name \in TableNames(ex.heap, ex.lockFile)
        /\ TableNames(ex.heap, ex.lockFile) = {} => ex.result = << >>

\* A call has returned a record of the flat table and left out a record
\* that only the nested tree attests.
C12_Witness ==
    /\ ex.pc = "return"
    /\ Len(ex.result) >= 1
    /\ \E i \in 1..Len(ex.packagesMap) :
          /\ ex.packagesMap[i].sources = <<"dependencies">>
          /\ ex.packagesMap[i].name \notin TableNames(ex.heap, ex.lockFile)
          /\ \A k \in 1..Len(ex.result) : ex.result[k].name # ex.packagesMap[i].name

\* The position in packagesMap of the record with an id.
MapPosition(id) == CHOOSE k \in 1..Len(ex.packagesMap) : ex.packagesMap[k].id = id

AtTableEntry ==
    /\ ex.pc \in {"collectPackages", "collectDependencies"}
    /\ ex.stack # << >>
    /\ Head(ex.stack).fn = "collectPackages"
    /\ isRecord(Head(Head(ex.stack).entries)[2])

\* C17: the candidate made of a flat-table entry is named by the entry's own
\* name field when it has one, and by the trailing segment of its path only
\* when it has none.
C17_OwnNameBeforePath ==
    AtTableEntry =>
        LET packagePath == Head(Head(ex.stack).entries)[1]
            info == Head(Head(ex.stack).entries)[2]
            own == asString(Get(EntriesOf(ex.heap, info), K("name")))
            fromPath == deriveNameFromPath(Some(packagePath))
            made == packageCandidate(ex, packagePath, info)
        IN made.made =>
              made.candidate.name =
                  IF IsDef(own) THEN Trim(own[1])
                  ELSE IF IsDef(fromPath) THEN Trim(fromPath[1]) ELSE << >>

\* The list has no name twice and ascends.
Ascending(list) ==
    \A i, j \in 1..Len(list) : i < j => localeCompare(list[i], list[j]) < 0

\* C18: in every returned record the lists dependencies, requires,
\* peerDependencies and bundledDependencies hold no name twice and ascend.
C18_ListFieldsSortedSets ==
    ex.pc = "return" =>
        \A i \in 1..Len(ex.result) :
            /\ IsDef(ex.result[i].dependencies) => Ascending(ex.result[i].dependencies[1])
            /\ IsDef(ex.result[i].requires) => Ascending(ex.result[i].requires[1])
            /\ IsDef(ex.result[i].peerDependencies) =>
                  Ascending(ex.result[i].peerDependencies[1])
            /\ IsDef(ex.result[i].bundledDependencies) =>
                  Ascending(ex.result[i].bundledDependencies[1])

(***************************************************************************)
(* URLs.  A URL is a string whose tokens are its scheme or prefix          *)
(* ("git+", "git://", "git@", "https://"), its host, the separators "/"    *)
(* and ":", the path segments and the suffix ".git".                       *)
(***************************************************************************)
StartsWith(s, t) == Len(s) >= Len(t) /\ SubSeq(s, 1, Len(t)) = t

EndsWith(s, t) == Len(s) >= Len(t) /\ SubSeq(s, Len(s) - Len(t) + 1, Len(s)) = t

Schemes == {"https://", "http://", "ssh://"}

Separators == {"/", ":", " ", ".git", "git+", "git://", "git@"}

\* new URL(s) succeeds: a scheme, then a host.
ValidUrl(s) == Len(s) >= 2 /\ s[1] \in Schemes /\ s[2] \notin Separators \cup Schemes

\* The position of the first ":" of s, or 0.
FirstColon(s) ==
    IF \E i \in 1..Len(s) : s[i] = ":"
    THEN CHOOSE i \in 1..Len(s) : s[i] = ":" /\ \A j \in 1..(i - 1) : s[j] # ":"
    ELSE 0

\* normalized.match(/^git@([^:]+):(.+?)(?:\.git)?$/): host and path, or no match.
sshMatch(s) ==
    LET colon == FirstColon(s)
        rest == SubSeq(s, colon + 1, Len(s))
        path == IF Len(rest) >= 2 /\ EndsWith(rest, <<".git">>)
                THEN SubSeq(rest, 1, Len(rest) - 1) ELSE rest
    IN IF colon >= 3 /\ rest # << >>
       THEN Some([host |-> SubSeq(s, 2, colon - 1), path |-> path])
       ELSE undefined

\* Mutant of normalizeGitUrl: the SSH shorthand is not rewritten.
normalizeGitUrl_NoShorthand(gitUrl) ==
    LET trimmed == Trim(gitUrl)
        plus == IF StartsWith(trimmed, <<"git+">>) THEN Tail(trimmed) ELSE trimmed
        proto == IF StartsWith(plus, <<"git://">>) THEN <<"https://">> \o Tail(plus) ELSE plus
        normalized == IF EndsWith(proto, <<".git">>)
                      THEN SubSeq(proto, 1, Len(proto) - 1) ELSE proto
    IN IF gitUrl = << >> THEN undefined
       ELSE IF ValidUrl(normalized) THEN Some(normalized)
       ELSE undefined

normalizeGitUrl(gitUrl) ==
    LET trimmed == Trim(gitUrl)
        plus == IF StartsWith(trimmed, <<"git+">>) THEN Tail(trimmed) ELSE trimmed
        proto == IF StartsWith(plus, <<"git://">>) THEN <<"https://">> \o Tail(plus) ELSE plus
        match == sshMatch(proto)
        ssh == IF StartsWith(proto, <<"git@">>) /\ IsDef(match)
               THEN <<"https://">> \o match[1].host \o <<"/">> \o match[1].path
               ELSE proto
        normalized == IF EndsWith(ssh, <<".git">>) THEN SubSeq(ssh, 1, Len(ssh) - 1) ELSE ssh
    IN IF gitUrl = << >> THEN undefined
       ELSE IF StartsWith(proto, <<"git@">>) /\ ~IsDef(match) THEN undefined
       ELSE IF ValidUrl(normalized) THEN Some(normalized)
       ELSE undefined

\* encodeURIComponent, token by token.
encodeURIComponent(s) ==
    [i \in 1..Len(s) |->
        CASE s[i] = "/" -> "%2F"
          [] s[i] = "|" -> "%7C"
          [] s[i] = "^" -> "%5E"
          [] s[i] = "@" -> "%40"
          [] s[i] = " " -> "%20"
          [] s[i] = "node_modules/" -> "node_modules%2F"
          [] OTHER -> s[i]]

normalizeNpmUrl(packageName, version) ==
    <<"https://www.npmjs.com/package/">> \o encodeURIComponent(Trim(packageName))
        \o <<"/v/">>
        \o encodeURIComponent(IF IsDef(version) THEN Trim(version[1]) ELSE <<"latest">>)

\* url.hostname of a valid URL.
hostname(url) == url[2]

\* url.pathname.split("/").filter(Boolean): the non-empty segments of the path.
RECURSIVE Segments(_, _)
Segments(s, current) ==
    IF s = << >> THEN (IF current = << >> THEN << >> ELSE <<current>>)
    ELSE IF Head(s) = "/"
         THEN (IF current = << >> THEN << >> ELSE <<current>>) \o Segments(Tail(s), << >>)
         ELSE Segments(Tail(s), Append(current, Head(s)))

pathParts(url) == Segments(SubSeq(url, 3, Len(url)), << >>)

(***************************************************************************)
(* Home.  The texts the input box may hold, and what the network may       *)
(* answer.                                                                 *)
(***************************************************************************)
MaxInputs == 2

MaxSteps == 64

BlankTexts == {"", " "}

JsonTexts == {"null", "one", "two"}

\* The texts the user may enter; the box is empty at first.
Texts == {" ", "{"} \cup JsonTexts

\* JSON.parse of the texts that parse: "one" has a registry package and a
\* local one, "two" has two registry packages.
Parse(text) ==
    CASE text = "one" -> Document(<<2, 4>>, << >>)
      [] text = "two" -> Document(<<2, 9>>, << >>)
      [] OTHER -> [heap |-> PoolHeap, lockFile |-> JNull]

\* extractPackages as one call, its records holding their raw bags.
extractPackages(doc) ==
    CHOOSE result \in {Snapshot(st.heap, st.result) :
                          st \in {RunCall(NewCall(doc.heap, doc.lockFile), MaxSteps)}} : TRUE

Extracted == [text \in JsonTexts |-> extractPackages(Parse(text))]

\* extracted.map((pkg) => ({...pkg, loading: true, localOnly: !pkg.resolved}))
InitialPackage(pkg) ==
    [pkg EXCEPT !.loading = TRUE, !.localOnly = Some(~StrTruthy(pkg.resolved))]

InitialPackages(extracted) == [i \in 1..Len(extracted) |-> InitialPackage(extracted[i])]

\* The bodies the registry may answer with.
Repository(type, url) == Some([type |-> type, url |-> url])

Responses ==
    [github |-> [null |-> FALSE, ref |-> 101, repository |->
                    Repository(<<"git">>, <<"git+", "https://", "github.com", "/", "o", "/", "x", ".git">>)],
     bitbucket |-> [null |-> FALSE, ref |-> 102, repository |->
                    Repository(<<"git">>, <<"git://", "bitbucket.org", "/", "o", "/", "x">>)],
     gitlab |-> [null |-> FALSE, ref |-> 103, repository |->
                    Repository(<<"git">>, <<"git@", "gitlab.com", ":", "o", "/", "y", ".git">>)],
     other |-> [null |-> FALSE, ref |-> 106, repository |->
                    Repository(<<"git">>, <<"https://", "example.org", "/", "o", "/", "x">>)],
     short |-> [null |-> FALSE, ref |-> 107, repository |->
                    Repository(<<"git">>, <<"https://", "github.com", "/", "o">>)],
     svn |-> [null |-> FALSE, ref |-> 108, repository |->
                    Repository(<<"svn">>, <<"https://", "github.com", "/", "o", "/", "x">>)],
     invalid |-> [null |-> FALSE, ref |-> 109, repository |->
                    Repository(<<"git">>, <<"o", "/", "x">>)],
     bare |-> [null |-> FALSE, ref |-> 105, repository |-> undefined],
     null |-> [null |-> TRUE, ref |-> 0, repository |-> undefined]]

\* The bodies the registry may answer with for a package.
Registry(name) ==
    IF name = <<"x">> THEN {"github", "null"} ELSE {"gitlab", "bare"}

Date == <<"2024-01-01T00:00:00Z">>

(***************************************************************************)
(* A run of the effect: its text, its cancelled flag, its controller and   *)
(* one lookup (a call of fetchPackageData) per package.  A lookup is at    *)
(* "registry", "host" or "commits" while it awaits that response, at       *)
(* "update" once it has handed React an updater, and "done" at its end.    *)
(***************************************************************************)
Lookup(pc, write, payload, gitUrl, lastCommitDate) ==
    [pc |-> pc, write |-> write, payload |-> payload, gitUrl |-> gitUrl,
     lastCommitDate |-> lastCommitDate]

\* A lookup that has returned: its locals are gone.
Done == Lookup("done", "", "", undefined, undefined)

\* Mutant of Fetch: the call carries no signal, so it is never aborted.
Fetch_NoSignal(g, i, kind) ==
    [effect |-> g, index |-> i, kind |-> kind, aborted |-> FALSE]

\* A call of fetch: the lookup that issues it, what it asks, and whether the
\* signal it carries was aborted already.
Fetch(g, i, kind) ==
    [effect |-> g, index |-> i, kind |-> kind,
     aborted |-> g <= Len(effects) /\ effects[g].aborted]

\* Mutant of setLocalOnly: the updater does not look at the cancelled flag.
setLocalOnly_NoCancel(prev, index, cancelled) ==
    IF index > Len(prev) THEN prev
    ELSE IF ~prev[index].loading THEN prev
    ELSE [prev EXCEPT ![index] = [@ EXCEPT !.loading = FALSE, !.localOnly = Some(TRUE)]]

\* The updater of a package without a resolved URL.
setLocalOnly(prev, index, cancelled) ==
    IF cancelled \/ index > Len(prev) THEN prev
    ELSE IF ~prev[index].loading THEN prev
    ELSE [prev EXCEPT ![index] = [@ EXCEPT !.loading = FALSE, !.localOnly = Some(TRUE)]]

\* Mutant of setResolved: the updater writes its record whatever the
\* cancelled flag and the record's loading flag say.
setResolved_Unguarded(prev, index, cancelled, pkg, lookup) ==
    IF index > Len(prev) THEN prev
    ELSE [prev EXCEPT ![index] =
            [@ EXCEPT
                !.loading = FALSE,
                !.raw = RawOwn(Spread(@.own,
                            << <<K("dummyResponse"), JObject(Responses[lookup.payload].ref)>> >>)),
                !.npmUrl = Some(<<"https://registry.npmjs.org/">> \o pkg.name \o <<"/">>
                                \o (IF IsDef(pkg.version) THEN pkg.version[1] ELSE <<"latest">>)),
                !.humanReadableNpmUrl = Some(normalizeNpmUrl(pkg.name, pkg.version)),
                !.gitUrl = lookup.gitUrl,
                !.lastCommitDate = lookup.lastCommitDate]]

\* Mutant of setResolved: the updater writes the first record of the list.
setResolved_AtFirst(prev, index, cancelled, pkg, lookup) ==
    IF cancelled \/ index > Len(prev) THEN prev
    ELSE IF ~prev[index].loading THEN prev
    ELSE [prev EXCEPT ![1] =
            [@ EXCEPT
                !.loading = FALSE,
                !.raw = RawOwn(Spread(@.own,
                            << <<K("dummyResponse"), JObject(Responses[lookup.payload].ref)>> >>)),
                !.npmUrl = Some(<<"https://registry.npmjs.org/">> \o pkg.name \o <<"/">>
                                \o (IF IsDef(pkg.version) THEN pkg.version[1] ELSE <<"latest">>)),
                !.humanReadableNpmUrl = Some(normalizeNpmUrl(pkg.name, pkg.version)),
                !.gitUrl = lookup.gitUrl,
                !.lastCommitDate = lookup.lastCommitDate]]

\* Mutant of setResolved: the written record is still loading.
setResolved_KeepsLoading(prev, index, cancelled, pkg, lookup) ==
    IF cancelled \/ index > Len(prev) THEN prev
    ELSE IF ~prev[index].loading THEN prev
    ELSE [prev EXCEPT ![index] =
            [@ EXCEPT
                !.raw = RawOwn(Spread(@.own,
                            << <<K("dummyResponse"), JObject(Responses[lookup.payload].ref)>> >>)),
                !.npmUrl = Some(<<"https://registry.npmjs.org/">> \o pkg.name \o <<"/">>
                                \o (IF IsDef(pkg.version) THEN pkg.version[1] ELSE <<"latest">>)),
                !.humanReadableNpmUrl = Some(normalizeNpmUrl(pkg.name, pkg.version)),
                !.gitUrl = lookup.gitUrl,
                !.lastCommitDate = lookup.lastCommitDate]]

\* The updater of a package whose registry lookup succeeded.
setResolved(prev, index, cancelled, pkg, lookup) ==
    IF cancelled \/ index > Len(prev) THEN prev
    ELSE IF ~prev[index].loading THEN prev
    ELSE [prev EXCEPT ![index] =
            [@ EXCEPT
                !.loading = FALSE,
                !.raw = RawOwn(Spread(@.own,
                            << <<K("dummyResponse"), JObject(Responses[lookup.payload].ref)>> >>)),
                !.npmUrl = Some(<<"https://registry.npmjs.org/">> \o pkg.name \o <<"/">>
                                \o (IF IsDef(pkg.version) THEN pkg.version[1] ELSE <<"latest">>)),
                !.humanReadableNpmUrl = Some(normalizeNpmUrl(pkg.name, pkg.version)),
                !.gitUrl = lookup.gitUrl,
                !.lastCommitDate = lookup.lastCommitDate]]

\* Mutant of setFailed: the failed lookup leaves the registry URL it tried.
setFailed_WithUrl(prev, index, cancelled) ==
    IF cancelled \/ index > Len(prev) THEN prev
    ELSE IF ~prev[index].loading THEN prev
    ELSE [prev EXCEPT ![index] =
            [@ EXCEPT !.loading = FALSE,
                      !.npmUrl = Some(<<"https://registry.npmjs.org/">> \o prev[index].name)]]

\* The updater of a package whose registry lookup failed.
setFailed(prev, index, cancelled) ==
    IF cancelled \/ index > Len(prev) THEN prev
    ELSE IF ~prev[index].loading THEN prev
    ELSE [prev EXCEPT ![index] = [@ EXCEPT !.loading = FALSE]]

\* Mutant of fetchPackageData: every package is looked up in the registry,
\* a resolved URL or not.
fetchPackageData_AlwaysRegistry(pkg) ==
    Lookup("registry", "", "", undefined, undefined)

\* fetchPackageData up to its first await: the lookup of a package.
fetchPackageData(pkg) ==
    IF ~StrTruthy(pkg.resolved)
    THEN Lookup("update", "local", "", undefined, undefined)
    ELSE Lookup("registry", "", "", undefined, undefined)

\* Mutant of StartLookups: the lookups run one after the other, only the
\* first is started with the effect.
StartLookups_Sequential(initialPackages) ==
    [i \in 1..Len(initialPackages) |->
        IF i = 1 THEN fetchPackageData(initialPackages[i])
        ELSE Lookup("waiting", "", "", undefined, undefined)]

\* Promise.all(initialPackages.map(fetchPackageData)): every lookup starts.
StartLookups(initialPackages) ==
    [i \in 1..Len(initialPackages) |-> fetchPackageData(initialPackages[i])]

\* Mutant of Catch: a failed lookup returns without an updater.
Catch_Silent(effect) == Done

\* The catch of fetchPackageData.
Catch(effect) ==
    IF effect.cancelled \/ effect.aborted THEN Done
    ELSE Lookup("update", "failed", "", undefined, undefined)

\* Mutant of HostOf: every hostname is asked.
HostOf_AnyHost(gitUrl) ==
    IF ~IsDef(gitUrl) THEN ""
    ELSE IF Len(pathParts(gitUrl[1])) < 2 THEN ""
    ELSE hostname(gitUrl[1])

\* The source host the lookup asks for the last commit, or "" for none.
HostOf(gitUrl) ==
    IF ~IsDef(gitUrl) THEN ""
    ELSE IF Len(pathParts(gitUrl[1])) < 2 THEN ""
    ELSE IF hostname(gitUrl[1]) \in {"github.com", "gitlab.com", "bitbucket.org"}
         THEN hostname(gitUrl[1])
         ELSE ""

\* Mutant of AfterRegistry: the repository's URL is used whatever its type.
AfterRegistry_AnyType(effect, outcome) ==
    IF outcome \in {"notok", "error", "abort"} THEN Catch(effect)
    ELSE IF effect.cancelled THEN Done
    ELSE IF Responses[outcome].null THEN Catch(effect)
    ELSE LET repository == Responses[outcome].repository
             rawGitUrl == IF IsDef(repository) THEN repository[1].url ELSE << >>
             gitUrl == IF rawGitUrl # << >> THEN normalizeGitUrl(rawGitUrl) ELSE undefined
         IN IF HostOf(gitUrl) # ""
            THEN Lookup("host", "", outcome, gitUrl, undefined)
            ELSE Lookup("update", "resolved", outcome, gitUrl, undefined)

\* fetchPackageData from the registry's answer to its next await.
AfterRegistry(effect, outcome) ==
    IF outcome \in {"notok", "error", "abort"} THEN Catch(effect)
    ELSE IF effect.cancelled THEN Done
    ELSE IF Responses[outcome].null THEN Catch(effect)
    ELSE LET repository == Responses[outcome].repository
             rawGitUrl == IF IsDef(repository) /\ repository[1].type = <<"git">>
                          THEN repository[1].url ELSE << >>
             gitUrl == IF rawGitUrl # << >> THEN normalizeGitUrl(rawGitUrl) ELSE undefined
         IN IF HostOf(gitUrl) # ""
            THEN Lookup("host", "", outcome, gitUrl, undefined)
            ELSE Lookup("update", "resolved", outcome, gitUrl, undefined)

\* Mutant of processInput: an empty extraction sets no message.
processInput_NoMessage(extracted, g) ==
    LET initialPackages == InitialPackages(extracted)
        lookups == StartLookups(initialPackages)
    IN [packages |-> initialPackages,
        error |-> "",
        lookups |-> lookups,
        calls |-> {Fetch(g, i, "registry") :
                      i \in {j \in DOMAIN lookups : lookups[j].pc = "registry"}}]

\* Mutant of processInput: the message of the empty list is set beside a
\* list that is not empty.
processInput_MessageBesideList(extracted, g) ==
    LET initialPackages == InitialPackages(extracted)
        lookups == StartLookups(initialPackages)
    IN [packages |-> initialPackages,
        error |-> "no packages found",
        lookups |-> lookups,
        calls |-> {Fetch(g, i, "registry") :
                      i \in {j \in DOMAIN lookups : lookups[j].pc = "registry"}}]

\* processInput once it has the extracted list: what it sets, the lookups
\* it starts and the registry calls they issue.
processInput(extracted, g) ==
    LET initialPackages == InitialPackages(extracted)
        lookups == StartLookups(initialPackages)
    IN IF Len(extracted) = 0
       THEN [packages |-> << >>, error |-> "no packages found", lookups |-> << >>, calls |-> {}]
       ELSE [packages |-> initialPackages,
             error |-> "",
             lookups |-> lookups,
             calls |-> {Fetch(g, i, "registry") :
                           i \in {j \in DOMAIN lookups : lookups[j].pc = "registry"}}]

\* The cleanup of the live run of the effect.
Cleanup(runs) ==
    [runs EXCEPT ![Len(runs)] = [@ EXCEPT !.cancelled = TRUE, !.aborted = TRUE]]

Effect(text) ==
    [text |-> text, cancelled |-> FALSE, aborted |-> FALSE,
     lookups |-> << >>]

\* The package a lookup was started for.
PkgOf(g, i) == InitialPackage(Extracted[effects[g].text][i])

Lookups == {<<g, i>> \in (1..(MaxInputs + 2)) \X (1..4) :
                g <= Len(effects) /\ i <= Len(effects[g].lookups)}

(***************************************************************************)
(* The page: Home after its first render, then the input box changing,     *)
(* the network answering and React running the updaters handed to it.      *)
(***************************************************************************)
Init ==
    /\ packageString = ""
    /\ packages = << >>
    /\ error = ""
    /\ effects = <<Effect("")>>
    /\ calls = {}
    /\ NoExtract
    /\ NoFold
    /\ NoCalc

\* The user changes the text: the cleanup of the live effect, then the
\* effect up to its first await.
InputChanges(text) ==
    /\ text # packageString
    /\ Len(effects) <= MaxInputs
    /\ packageString' = text
    /\ IF text \in BlankTexts
       THEN /\ packages' = << >>
            /\ error' = ""
            /\ effects' = Append(Cleanup(effects), Effect(text))
            /\ calls' = calls
       ELSE IF text \notin JsonTexts
       THEN /\ packages' = << >>
            /\ error' = "not valid json"
            /\ effects' = Append(Cleanup(effects), Effect(text))
            /\ calls' = calls
       ELSE \E out \in {processInput(Extracted[text], Len(effects) + 1)} :
               /\ packages' = out.packages
               /\ error' = out.error
               /\ effects' = Append(Cleanup(effects),
                                    [Effect(text) EXCEPT !.lookups = out.lookups])
               /\ calls' = calls \cup out.calls
    /\ UNCHANGED <<exVars, fold, calc>>

\* The registry call of a lookup settles with an outcome: a body, a
\* non-success response ("notok"), a failure ("error") or, once the
\* controller has aborted, the abort.
RegistryAnswers(g, i, outcome) ==
    /\ effects[g].lookups[i].pc = "registry"
    /\ outcome = "abort" => effects[g].aborted
    /\ LET after == AfterRegistry(effects[g], outcome)
       IN /\ effects' = [effects EXCEPT ![g].lookups[i] = after]
          /\ calls' = IF after.pc = "host"
                      THEN calls \cup {Fetch(g, i, HostOf(after.gitUrl))}
                      ELSE calls
    /\ UNCHANGED <<packageString, packages, error, exVars, fold, calc>>

RegistryFailures == {"notok", "error", "abort"}

RegistryResponds(g, i) ==
    \E outcome \in Registry(PkgOf(g, i).name) \cup RegistryFailures :
        RegistryAnswers(g, i, outcome)

\* What a call to a source host may end in: a non-success response
\* ("notok"), a failure or an abort ("error"), a body with what the lookup
\* reads from it ("ok", "date") or without it ("nodate").
HostFailures == {"notok", "error"}

\* Mutant of AfterHost: a failed call to the source host fails the lookup.
AfterHost_Fails(lookup, outcome) ==
    IF outcome \in HostFailures
    THEN Lookup("update", "failed", "", undefined, undefined)
    ELSE IF outcome = "ok" THEN [lookup EXCEPT !.pc = "commits"]
    ELSE Lookup("update", "resolved", lookup.payload, lookup.gitUrl,
                IF outcome = "date" THEN Some(Date) ELSE undefined)

\* fetchPackageData from the answer of a source host to its next await:
\* the commits call after the repository's body ("ok"), else the updater
\* with the date read, if any.
AfterHost(lookup, outcome) ==
    IF outcome = "ok" THEN [lookup EXCEPT !.pc = "commits"]
    ELSE Lookup("update", "resolved", lookup.payload, lookup.gitUrl,
                IF outcome = "date" THEN Some(Date) ELSE undefined)

HostAnswers(g, i, outcome) ==
    /\ effects[g].lookups[i].pc = "host"
    /\ outcome \in HostFailures
                   \cup (IF HostOf(effects[g].lookups[i].gitUrl) = "github.com"
                         THEN {"date", "nodate"} ELSE {"ok"})
    /\ LET after == AfterHost(effects[g].lookups[i], outcome)
       IN /\ effects' = [effects EXCEPT ![g].lookups[i] = after]
          /\ calls' = IF after.pc = "commits" THEN calls \cup {Fetch(g, i, "commits")}
                      ELSE calls
    /\ UNCHANGED <<packageString, packages, error, exVars, fold, calc>>

\* The first call to the source host settles: the relay's answer for
\* github.com, the repository's for gitlab.com and bitbucket.org.
HostResponds(g, i) ==
    \E outcome \in HostFailures \cup {"ok", "date", "nodate"} : HostAnswers(g, i, outcome)

CommitsAnswers(g, i, outcome) ==
    /\ effects[g].lookups[i].pc = "commits"
    /\ outcome \in HostFailures \cup {"date", "nodate"}
    /\ effects' = [effects EXCEPT ![g].lookups[i] = AfterHost(@, outcome)]
    /\ UNCHANGED <<packageString, packages, error, calls, exVars, fold, calc>>

\* The commits call to gitlab.com or bitbucket.org settles.
CommitsResponds(g, i) ==
    \E outcome \in HostFailures \cup {"date", "nodate"} : CommitsAnswers(g, i, outcome)

\* React runs the updater a lookup handed to setPackages.
Update(g, i) ==
    /\ effects[g].lookups[i].pc = "update"
    /\ LET lookup == effects[g].lookups[i]
           cancelled == effects[g].cancelled
       IN /\ packages' =
                CASE lookup.write = "local" -> setLocalOnly(packages, i, cancelled)
                  [] lookup.write = "resolved" ->
                        setResolved(packages, i, cancelled, PkgOf(g, i), lookup)
                  [] OTHER -> setFailed(packages, i, cancelled)
          /\ effects' = [effects EXCEPT ![g].lookups[i] = Done]
    /\ UNCHANGED <<packageString, error, calls, exVars, fold, calc>>

LookupStep(g, i) ==
    \/ RegistryResponds(g, i)
    \/ HostResponds(g, i)
    \/ CommitsResponds(g, i)
    \/ Update(g, i)

Next ==
    \/ \E text \in Texts : InputChanges(text)
    \/ \E l \in Lookups : RegistryResponds(l[1], l[2])
    \/ \E l \in Lookups : HostResponds(l[1], l[2])
    \/ \E l \in Lookups : CommitsResponds(l[1], l[2])
    \/ \E l \in Lookups : Update(l[1], l[2])

Spec == Init /\ [][Next]_vars

(***************************************************************************)
(* Claims about the page                                                   *)
(***************************************************************************)
Live == Len(effects)

LookupOf(l) == effects[l[1]].lookups[l[2]]

\* The record a lookup is about, as the effect first set it.
Pending(l) == PkgOf(l[1], l[2])

HasResolved(l) == StrTruthy(Pending(l).resolved)

\* The step is a step of the lookup.
Moves(l) == effects'[l[1]].lookups[l[2]] # effects[l[1]].lookups[l[2]]

\* C1: once the cleanup has set the cancelled flag of an effect and aborted
\* its controller, no step of its lookups changes the package list or the
\* error message, and none hands React the updater of a failed lookup.
C1_SupersededLookupsNeverWrite ==
    [][\A l \in Lookups :
          (effects[l[1]].cancelled /\ Moves(l)) =>
              /\ packages' = packages
              /\ error' = error
              /\ ~(effects'[l[1]].lookups[l[2]].pc = "update"
                   /\ effects'[l[1]].lookups[l[2]].write = "failed")]_vars

\* A lookup of a superseded effect issued its commits call on the aborted
\* signal and ran to its end, and the record at its index is still pending.
C1_Witness ==
    \E c \in calls :
        /\ c.aborted
        /\ effects[c.effect].cancelled
        /\ effects[c.effect].lookups[c.index].pc = "done"
        /\ c.index <= Len(packages)
        /\ packages[c.index].loading

\* The step starts no new list: the effect did not run.
SameGeneration == Len(effects') = Len(effects)

\* C3: within one generation a record that is no longer loading is never
\* changed again.
C3_TerminalRecordsStay ==
    [][SameGeneration =>
          \A i \in DOMAIN packages :
              ~packages[i].loading => (i \in DOMAIN packages' /\ packages'[i] = packages[i])]_vars

\* Every lookup of the live effect is done, two records have left pending,
\* and a superseded effect still has a lookup to run.
C3_Witness ==
    /\ Len(packages) = 2
    /\ \A i \in DOMAIN packages : ~packages[i].loading /\ effects[Live].lookups[i].pc = "done"
    /\ \E g \in 1..(Live - 1) : \E i \in DOMAIN effects[g].lookups :
          effects[g].lookups[i].pc = "update"

\* What the updater of a package without a resolved URL leaves.
LocalOnly(pkg) == [pkg EXCEPT !.loading = FALSE, !.localOnly = Some(TRUE)]

\* C5: for a package without a resolved URL no call is ever issued, its
\* lookup only hands React the local-only updater, and its record is
\* pending or local-only, local-only once the live effect's lookup is done.
C5_NoResolvedUrlLocalOnly ==
    \A l \in Lookups :
        ~HasResolved(l) =>
            /\ \A c \in calls : ~(c.effect = l[1] /\ c.index = l[2])
            /\ LookupOf(l).pc \in {"update", "done"}
            /\ LookupOf(l).pc = "update" => LookupOf(l).write = "local"
            /\ l[1] = Live =>
                  /\ packages[l[2]] \in {Pending(l), LocalOnly(Pending(l))}
                  /\ LookupOf(l).pc = "done" => packages[l[2]] = LocalOnly(Pending(l))

\* The lookup of a package without a resolved URL is done and its record
\* is local-only, while the registry call of another package is pending.
C5_Witness ==
    \E l \in Lookups :
        /\ l[1] = Live
        /\ ~HasResolved(l)
        /\ LookupOf(l).pc = "done"
        /\ packages[l[2]] = LocalOnly(Pending(l))
        /\ \E k \in Lookups : k[1] = Live /\ LookupOf(k).pc = "registry"

FailedUpdate == Lookup("update", "failed", "", undefined, undefined)

\* C7: in an effect that is not cancelled, a registry call that ends in a
\* non-success response, a failure or an unusable body hands React the
\* updater of a failed lookup; that updater changes the loading flag of its
\* own record to false and nothing else, in the list or in the error.
C7_RegistryFailureOnlyClearsLoading ==
    [][\A l \in Lookups :
          /\ \A outcome \in {"notok", "error", "null"} :
                (RegistryAnswers(l[1], l[2], outcome) /\ ~effects[l[1]].cancelled) =>
                    effects'[l[1]].lookups[l[2]] = FailedUpdate
          /\ (LookupOf(l) = FailedUpdate /\ ~effects[l[1]].cancelled /\ Moves(l)) =>
                /\ packages[l[2]].loading
                /\ packages' = [packages EXCEPT ![l[2]].loading = FALSE]
                /\ packages'[l[2]] = [Pending(l) EXCEPT !.loading = FALSE]
                /\ error' = error]_vars

\* The registry lookup of one package has failed and its record has only
\* lost its loading flag, while the other record is as the effect set it.
C7_Witness ==
    /\ error = ""
    /\ \E l, k \in Lookups :
          /\ l[1] = Live /\ k[1] = Live /\ l # k
          /\ HasResolved(l)
          /\ LookupOf(l).pc = "done"
          /\ packages[l[2]] = [Pending(l) EXCEPT !.loading = FALSE]
          /\ packages[k[2]] = Pending(k)

\* JSON.parse(text) throws.
Unparseable(text) == text \notin JsonTexts

\* What an input error leaves: no record, no lookup of the live effect and
\* no call issued by it.
NothingStarted ==
    /\ packages = << >>
    /\ effects[Live].lookups = << >>
    /\ \A c \in calls : c.effect # Live

\* C13 as stated: a text the user entered that does not parse leaves the
\* list empty with the message "not valid json", a text that parses to no
\* package leaves it empty with "no packages found", and neither starts a
\* lookup.
C13_InputErrorSetsMessage ==
    LET text == effects[Live].text
    IN /\ (Live > 1 /\ Unparseable(text)) => NothingStarted /\ error = "not valid json"
       /\ (~Unparseable(text) /\ Extracted[text] = << >>) =>
              NothingStarted /\ error = "no packages found"

\* C13 amended: the message "not valid json" is set for a text that is not
\* blank and does not parse; a blank text leaves the list empty with no
\* message at all.
C13_NonBlankInputErrorSetsMessage ==
    LET text == effects[Live].text
    IN /\ text \in BlankTexts => NothingStarted /\ error = ""
       /\ (text \notin BlankTexts /\ Unparseable(text)) =>
              NothingStarted /\ error = "not valid json"
       /\ (~Unparseable(text) /\ Extracted[text] = << >>) =>
              NothingStarted /\ error = "no packages found"

\* The text parses to no package while a lookup of the superseded effect
\* has gone on to issue a call on the aborted signal.
C13_Witness ==
    /\ effects[Live].text = "null"
    /\ error = "no packages found"
    /\ NothingStarted
    /\ \E c \in calls : c.aborted

\* The registry URL fetchPackageData asks for a package.
NpmUrlOf(pkg) ==
    <<"https://registry.npmjs.org/">> \o pkg.name \o <<"/">>
        \o (IF IsDef(pkg.version) THEN pkg.version[1] ELSE <<"latest">>)

\* C14: in an effect that is not cancelled, a call to the source host that
\* ends in a non-success response or a failure hands React the updater of a
\* resolved lookup with the git URL and no date; that updater clears the
\* loading flag, writes npmUrl and gitUrl and leaves lastCommitDate unset.
C14_HostFailureStillResolves ==
    [][\A l \in Lookups :
          /\ \A outcome \in HostFailures :
                (HostAnswers(l[1], l[2], outcome) \/ CommitsAnswers(l[1], l[2], outcome)) =>
                    effects'[l[1]].lookups[l[2]] =
                        Lookup("update", "resolved", LookupOf(l).payload,
                               LookupOf(l).gitUrl, undefined)
          /\ (/\ LookupOf(l).pc = "update"
              /\ LookupOf(l).write = "resolved"
              /\ HostOf(LookupOf(l).gitUrl) # ""
              /\ ~effects[l[1]].cancelled
              /\ Moves(l)) =>
                /\ packages[l[2]].loading
                /\ ~packages'[l[2]].loading
                /\ packages'[l[2]].npmUrl = Some(NpmUrlOf(Pending(l)))
                /\ IsDef(packages'[l[2]].gitUrl)
                /\ packages'[l[2]].gitUrl = LookupOf(l).gitUrl
                /\ packages'[l[2]].lastCommitDate = LookupOf(l).lastCommitDate
                /\ \A k \in DOMAIN packages : k # l[2] => packages'[k] = packages[k]
                /\ error' = error]_vars

\* A record is resolved with its registry URL and a gitlab.com git URL and
\* without a date, and the commits call of its lookup was never issued: the
\* repository call did not succeed.
C14_Witness ==
    \E l \in Lookups :
        /\ l[1] = Live
        /\ LookupOf(l).pc = "done"
        /\ ~packages[l[2]].loading
        /\ packages[l[2]].npmUrl = Some(NpmUrlOf(Pending(l)))
        /\ IsDef(packages[l[2]].gitUrl)
        /\ HostOf(packages[l[2]].gitUrl) = "gitlab.com"
        /\ packages[l[2]].lastCommitDate = undefined
        /\ \E c \in calls : c.effect = l[1] /\ c.index = l[2] /\ c.kind = "gitlab.com"
        /\ \A c \in calls : ~(c.effect = l[1] /\ c.index = l[2] /\ c.kind = "commits")

\* The call runs on the declared document.
OnDeclared == \E rootFirst \in BOOLEAN :
    ex.heap = Declared(rootFirst).heap /\ ex.lockFile = Declared(rootFirst).lockFile

\* C16: on the declared document extractPackages returns exactly one record,
\* x at version "1.0.0" with isExplicit true, and processInput's first list
\* holds it with loading true; the range of the root's declaration is only
\* the version of a record of the nested origin, which is not returned.
C16_DeclaredRangeMakesNoRecord ==
    (ex.pc = "return" /\ OnDeclared) =>
        /\ Len(ex.result) = 1
        /\ ex.result[1].name = K("x")
        /\ ex.result[1].version = Some(<<"1", ".", "0", ".", "0">>)
        /\ ex.result[1].isExplicit = Some(TRUE)
        /\ ex.result[1].sources = <<"packages">>
        /\ LET initialPackages == [i \in 1..Len(ex.result) |-> InitialPackage(ex.result[i])]
           IN /\ Len(initialPackages) = 1
              /\ initialPackages[1].loading
              /\ initialPackages[1].localOnly = Some(FALSE)

\* The call on the declared document has returned, and its map holds the
\* record the range made besides the record of the table.
C16_Witness ==
    /\ ex.pc = "return"
    /\ OnDeclared
    /\ Len(ex.result) = 1
    /\ Len(ex.packagesMap) = 2
    /\ \E i \in 1..2 :
          /\ ex.packagesMap[i].sources = <<"dependencies">>
          /\ ex.packagesMap[i].version = Some(<<"^", "1", ".", "0", ".", "0">>)

(***************************************************************************)
(* normalizeGitUrl applied to a repository URL as a registry may report    *)
(* it: the SSH shorthand, or a URL with a scheme, of a host, an owner and  *)
(* a repository, with or without the suffix ".git", the prefix "git+" and  *)
(* surrounding white space.                                                *)
(***************************************************************************)
Hosts == {"github.com", "gitlab.com", "bitbucket.org", "example.org"}

Owners == {"owner", "o"}

Repos == {"repo", "x", "y"}

Shorthand(host, owner, repo, suffix) ==
    <<"git@", host, ":", owner, "/", repo>> \o (IF suffix THEN <<".git">> ELSE << >>)

WithScheme(scheme, host, owner, repo, suffix) ==
    <<scheme, host, "/", owner, "/", repo>> \o (IF suffix THEN <<".git">> ELSE << >>)

GitUrls ==
    LET plain == {Shorthand(h, o, r, s) : h \in Hosts, o \in Owners, r \in Repos, s \in BOOLEAN}
                 \cup UNION {{WithScheme(scheme, h, o, r, s) :
                                 h \in Hosts, o \in Owners, r \in Repos, s \in BOOLEAN} :
                             scheme \in {"https://", "git://", "ssh://"}}
    IN plain
       \cup {<<"git+">> \o u : u \in plain}
       \cup {<<" ">> \o u \o <<" ">> : u \in plain}
       \cup {<<"git@", h>> : h \in Hosts}
       \cup {<< >>}

InitUrl ==
    /\ \E gitUrl \in GitUrls : calc = [fn |-> "normalizeGitUrl", gitUrl |-> gitUrl]
    /\ NoExtract
    /\ NoFold
    /\ NoPage

Normalize ==
    /\ calc.fn = "normalizeGitUrl"
    /\ calc' = [fn |-> "returned", gitUrl |-> calc.gitUrl, result |-> normalizeGitUrl(calc.gitUrl)]
    /\ UNCHANGED <<exVars, fold, pageVars>>

NextUrl == Normalize

SpecUrl == InitUrl /\ [][NextUrl]_vars

\* C19: normalizeGitUrl maps the SSH shorthand git@HOST:OWNER/REPO.git, and
\* the same without the suffix, to https://HOST/OWNER/REPO.
C19_ShorthandBecomesHttps ==
    calc.fn = "returned" =>
        \A h \in Hosts, o \in Owners, r \in Repos, s \in BOOLEAN :
            calc.gitUrl = Shorthand(h, o, r, s) =>
                calc.result = Some(<<"https://", h, "/", o, "/", r>>)

\* git@github.com:owner/repo.git has become https://github.com/owner/repo.
C19_Witness ==
    /\ calc.fn = "returned"
    /\ calc.gitUrl = <<"git@", "github.com", ":", "owner", "/", "repo", ".git">>
    /\ calc.result = Some(<<"https://", "github.com", "/", "owner", "/", "repo">>)

(***************************************************************************)
(* Outdatedness severity of a declared version against the latest one.     *)
(* A version is a string of components separated by "."; a component is    *)
(* one token, a decimal digit or a word.                                   *)
(***************************************************************************)
MaxComponent == 5

Digits == <<"0", "1", "2", "3", "4", "5", "6", "7", "8", "9">>

\* The components of a version: the tokens between the dots.
RECURSIVE Components(_)
Components(version) ==
    IF version = << >> THEN << << >> >>
    ELSE LET rest == Components(Tail(version))
         IN IF Head(version) = "."
            THEN << << >> >> \o rest
            ELSE << <<Head(version)>> \o Head(rest) >> \o Tail(rest)

\* A component as an integer: a component that is not a number, or is
\* missing, counts as zero.
ComponentValue(parts, k) ==
    IF k <= Len(parts) /\ Len(parts[k]) = 1
          /\ \E n \in 1..Len(Digits) : Digits[n] = parts[k][1]
    THEN (CHOOSE n \in 1..Len(Digits) : Digits[n] = parts[k][1]) - 1
    ELSE 0

\* Mutant of outdatednessSeverity: a minor difference of 2 is high already.
outdatednessSeverity_HighFromTwo(current, latest) ==
    LET majorDiff == ComponentValue(Components(latest), 1) - ComponentValue(Components(current), 1)
        minorDiff == ComponentValue(Components(latest), 2) - ComponentValue(Components(current), 2)
    IN IF majorDiff > 0 THEN "critical"
       ELSE IF minorDiff >= 2 THEN "high"
       ELSE IF minorDiff > 0 THEN "moderate"
       ELSE "low"

outdatednessSeverity(current, latest) ==
    LET majorDiff == ComponentValue(Components(latest), 1) - ComponentValue(Components(current), 1)
        minorDiff == ComponentValue(Components(latest), 2) - ComponentValue(Components(current), 2)
    IN IF majorDiff > 0 THEN "critical"
       ELSE IF minorDiff > 2 THEN "high"
       ELSE IF minorDiff > 0 THEN "moderate"
       ELSE "low"

ComponentTokens == {Digits[n + 1] : n \in 0..MaxComponent} \cup {"x"}

Versions ==
    {<<major, ".", minor, ".", "0">> : major \in ComponentTokens, minor \in ComponentTokens}
    \cup {<<major, ".", minor>> : major \in ComponentTokens, minor \in ComponentTokens}
    \cup {<<major>> : major \in ComponentTokens}
    \cup {<<"unknown">>}

InitSeverity ==
    /\ \E current \in Versions, latest \in Versions :
          calc = [fn |-> "outdatednessSeverity", current |-> current, latest |-> latest]
    /\ NoExtract
    /\ NoFold
    /\ NoPage

Classify ==
    /\ calc.fn = "outdatednessSeverity"
    /\ calc' = [fn |-> "classified", current |-> calc.current, latest |-> calc.latest,
                result |-> outdatednessSeverity(calc.current, calc.latest)]
    /\ UNCHANGED <<exVars, fold, pageVars>>

NextSeverity == Classify

SpecSeverity == InitSeverity /\ [][NextSeverity]_vars

\* The version major.minor.0 of two numbers.
Release(major, minor) == <<Digits[major + 1], ".", Digits[minor + 1], ".", "0">>

\* C20: the severity is critical when the latest major exceeds the declared
\* one, else high when the latest minor exceeds the declared one by more
\* than 2, else moderate when it exceeds it at all, else low; a component
\* that is not a number counts as zero.  1.2.0 against 2.0.0 is critical,
\* against 1.5.0 high, against 1.3.0 moderate, and against itself low.
C20_SeverityByMajorThenMinor ==
    calc.fn = "classified" =>
        /\ \A a, b \in 0..MaxComponent :
              calc.current = Release(a, b) =>
                  \A c, d \in 0..MaxComponent :
                      calc.latest = Release(c, d) =>
                          /\ calc.result = "critical" <=> c > a
                          /\ calc.result = "high" <=> (c <= a /\ d > b + 2)
                          /\ calc.result = "moderate" <=> (c <= a /\ d > b /\ d <= b + 2)
                          /\ calc.result = "low" <=> (c <= a /\ d <= b)
        /\ calc.current = calc.latest => calc.result = "low"
        /\ \A a, b \in 0..MaxComponent :
              /\ (calc.current = Release(a, b) /\ calc.latest = <<"x", ".", "x", ".", "0">>) =>
                    calc.result = "low"
              /\ (calc.current = <<"x", ".", "x", ".", "0">> /\ calc.latest = Release(a, b)) =>
                    calc.result = (IF a > 0 THEN "critical" ELSE IF b > 2 THEN "high"
                                   ELSE IF b > 0 THEN "moderate" ELSE "low")
        /\ (calc.current = Release(1, 2) /\ calc.latest = Release(2, 0)) => calc.result = "critical"
        /\ (calc.current = Release(1, 2) /\ calc.latest = Release(1, 5)) => calc.result = "high"
        /\ (calc.current = Release(1, 2) /\ calc.latest = Release(1, 3)) => calc.result = "moderate"

\* 1.2.0 against 1.5.0 has been classified high.
C20_Witness ==
    /\ calc.fn = "classified"
    /\ calc.current = <<"1", ".", "2", ".", "0">>
    /\ calc.latest = <<"1", ".", "5", ".", "0">>
    /\ calc.result = "high"

(***************************************************************************)
(* The display sort of the rendered list (page.tsx lines 1230-1240).  A    *)
(* row is a record of the list together with what the lookups learnt of    *)
(* its repository and of its latest release: the relay's isArchived        *)
(* (api/github-commit/route.ts line 48) and the registry's latest version. *)
(***************************************************************************)
MaxRows == 2

Earlier == <<"2023-01-01T00:00:00Z">>

\* new Date(text).getTime(), on the two timestamps of the model.
getTime(text) == IF text = Earlier THEN 1 ELSE 2

\* The comparator of lines 1232-1240, by its sign: a missing date counts as
\* Infinity, and Infinity - Infinity is NaN, which sort() reads as 0.
displayCompare(a, b) ==
    IF ~IsDef(a.lastCommitDate) /\ ~IsDef(b.lastCommitDate) THEN 0
    ELSE IF ~IsDef(a.lastCommitDate) THEN 1
    ELSE IF ~IsDef(b.lastCommitDate) THEN -1
    ELSE getTime(a.lastCommitDate[1]) - getTime(b.lastCommitDate[1])

RECURSIVE InsertRow(_, _)
InsertRow(x, sorted) ==
    IF sorted = << >> THEN <<x>>
    ELSE IF displayCompare(x, Head(sorted)) < 0 THEN <<x>> \o sorted
    ELSE <<Head(sorted)>> \o InsertRow(x, Tail(sorted))

RECURSIVE SortRows(_)
SortRows(s) ==
    IF s = << >> THEN << >>
    ELSE InsertRow(s[Len(s)], SortRows(SubSeq(s, 1, Len(s) - 1)))

\* Lines 1230-1240: [...packages].filter(...).sort(...).
DisplayRows(list, showExplicitOnly) ==
    SortRows(SelectSeq(list, LAMBDA pkg : ~showExplicitOnly \/ pkg.isExplicit))

Rows ==
    [version : {<<"1", ".", "2", ".", "0">>},
     latest : {<<"1", ".", "2", ".", "0">>, <<"2", ".", "0", ".", "0">>},
     loading : {FALSE},
     lastCommitDate : {undefined, Some(Earlier), Some(Date)},
     isExplicit : BOOLEAN,
     isArchived : BOOLEAN]

RowLists == UNION {[1..n -> Rows] : n \in 0..MaxRows}

InitDisplay ==
    /\ \E list \in RowLists, showExplicitOnly \in BOOLEAN :
          calc = [fn |-> "display", packages |-> list,
                  showExplicitOnly |-> showExplicitOnly]
    /\ NoExtract
    /\ NoFold
    /\ NoPage

Render ==
    /\ calc.fn = "display"
    /\ calc' = [fn |-> "rendered", packages |-> calc.packages,
                showExplicitOnly |-> calc.showExplicitOnly,
                rows |-> DisplayRows(calc.packages, calc.showExplicitOnly)]
    /\ UNCHANGED <<exVars, fold, pageVars>>

NextDisplay == Render

SpecDisplay == InitDisplay /\ [][NextDisplay]_vars

\* The rank of a severity: critical > high > moderate > low.
SeverityRank(row) ==
    LET severity == outdatednessSeverity(row.version, row.latest)
    IN IF severity = "critical" THEN 3
       ELSE IF severity = "high" THEN 2
       ELSE IF severity = "moderate" THEN 1
       ELSE 0

ArchivedAndResolved(row) == row.isArchived /\ ~row.loading

\* a may stand before b in the order of archived first, then descending
\* severity rank, then ascending last-commit date with no date last.
MayPrecede(a, b) ==
    IF ArchivedAndResolved(a) # ArchivedAndResolved(b) THEN ArchivedAndResolved(a)
    ELSE IF SeverityRank(a) # SeverityRank(b) THEN SeverityRank(a) > SeverityRank(b)
    ELSE displayCompare(a, b) <= 0

\* C21: the displayed rows stand archived-and-resolved first, then by
\* descending severity rank, then by ascending last-commit date, the rows
\* without a known date last.
C21_DisplayOrder ==
    calc.fn = "rendered" =>
        \A i, j \in 1..Len(calc.rows) :
            i < j => MayPrecede(calc.rows[i], calc.rows[j])

(***************************************************************************)
(* The batch vulnerability audit.  The relay it calls is                   *)
(* api/npm-vulnerabilities/route.ts; the page code that issues the call    *)
(* and merges its answer is described by the specification only: one call  *)
(* per input generation carrying the name -> version map, whose            *)
(* per-package breakdown is merged into the records already resolved, and  *)
(* whose failure degrades silently to no vulnerability data.               *)
(***************************************************************************)

\* A record with room for the audit's answer.
Audited(pkg, data) ==
    [f \in DOMAIN pkg \cup {"vulnerabilities"} |->
        IF f = "vulnerabilities" THEN data ELSE pkg[f]]

\* What the audit may say of one package: a count and a peak severity.
Advisories ==
    {[count |-> 1, severity |-> "high"], [count |-> 2, severity |-> "critical"]}

\* The breakdowns the audit may answer with, for the names it was sent.
Breakdowns(names) == [names -> {undefined} \cup {Some(a) : a \in Advisories}]

\* Mutant of mergeAudit: a record named by the breakdown also stops loading.
mergeAudit_StopsLoading(prev, breakdown) ==
    [i \in 1..Len(prev) |->
        IF prev[i].name \in DOMAIN breakdown /\ IsDef(breakdown[prev[i].name])
        THEN [prev[i] EXCEPT !.loading = FALSE,
                             !.vulnerabilities = breakdown[prev[i].name]]
        ELSE prev[i]]

\* The merge of a breakdown into the records that are already resolved.
mergeAudit(prev, breakdown) ==
    [i \in 1..Len(prev) |->
        IF /\ ~prev[i].loading
           /\ prev[i].name \in DOMAIN breakdown
           /\ IsDef(breakdown[prev[i].name])
        THEN [prev[i] EXCEPT !.vulnerabilities = breakdown[prev[i].name]]
        ELSE prev[i]]

InitAudit ==
    /\ \E text \in {"one", "two"} :
          /\ packageString = text
          /\ packages = [i \in 1..Len(Extracted[text]) |->
                            Audited(InitialPackage(Extracted[text][i]), undefined)]
    /\ error = ""
    /\ effects = << >>
    /\ calls = {}
    /\ calc = [fn |-> "audit", pc |-> "idle"]
    /\ NoExtract
    /\ NoFold

\* The lookup of record i writes its result: local only, resolved or failed.
Settle(i) ==
    /\ calc.fn = "audit"
    /\ i \in 1..Len(packages)
    /\ packages[i].loading
    /\ \/ /\ ~StrTruthy(packages[i].resolved)
          /\ packages' = setLocalOnly(packages, i, FALSE)
       \/ /\ StrTruthy(packages[i].resolved)
          /\ \E payload \in Registry(packages[i].name) :
                packages' = setResolved(packages, i, FALSE, packages[i],
                                Lookup("update", "resolved", payload, undefined, undefined))
       \/ /\ StrTruthy(packages[i].resolved)
          /\ packages' = setFailed(packages, i, FALSE)
    /\ UNCHANGED <<packageString, error, effects, calls, exVars, fold, calc>>

\* The one audit call of the generation, with the name -> version map.
AuditRequest ==
    /\ calc.fn = "audit"
    /\ calc.pc = "idle"
    /\ calc' = [fn |-> "audit", pc |-> "requested",
                sent |-> {<<packages[i].name, packages[i].version>> : i \in 1..Len(packages)}]
    /\ UNCHANGED <<pageVars, exVars, fold>>

AuditResponds ==
    /\ calc.fn = "audit"
    /\ calc.pc = "requested"
    /\ \E breakdown \in Breakdowns({entry[1] : entry \in calc.sent}) :
          packages' = mergeAudit(packages, breakdown)
    /\ calc' = [calc EXCEPT !.pc = "merged"]
    /\ UNCHANGED <<packageString, error, effects, calls, exVars, fold>>

AuditFails ==
    /\ calc.fn = "audit"
    /\ calc.pc = "requested"
    /\ calc' = [calc EXCEPT !.pc = "failed"]
    /\ UNCHANGED <<pageVars, exVars, fold>>

NextAudit ==
    \/ \E i \in 1..MaxEntries : Settle(i)
    \/ AuditRequest
    \/ AuditResponds
    \/ AuditFails

SpecAudit == InitAudit /\ [][NextAudit]_vars

\* The resolution state of a record.
Resolution(pkg) ==
    IF pkg.loading THEN "pending"
    ELSE IF pkg.localOnly = Some(TRUE) THEN "local-only"
    ELSE IF IsDef(pkg.npmUrl) THEN "resolved"
    ELSE "resolved-with-error"

AuditEnds == calc.fn = "audit" /\ calc.pc = "requested" /\ calc'.pc # "requested"

\* C22: the audit's answer and the audit's failure change no record's
\* resolution state: every record is pending, local only, resolved or
\* resolved with error after the merge as it was before; the failure leaves
\* the records without vulnerability data and sets no error.
C22_AuditKeepsResolution ==
    [][AuditEnds =>
          /\ Len(packages') = Len(packages)
          /\ \A i \in 1..Len(packages) :
                Resolution(packages'[i]) = Resolution(packages[i])
          /\ calc'.pc = "failed" =>
                /\ \A i \in 1..Len(packages) : ~IsDef(packages'[i].vulnerabilities)
                /\ error' = ""]_vars

\* A breakdown naming both records was merged while one was still pending:
\* the resolved one carries its advisories, the pending one is as it was.
C22_Witness ==
    /\ calc.fn = "audit"
    /\ calc.pc = "merged"
    /\ \E i, j \in 1..Len(packages) :
          /\ Resolution(packages[i]) = "resolved"
          /\ IsDef(packages[i].vulnerabilities)
          /\ Resolution(packages[j]) = "pending"

\* The positions of the records of a map a candidate may be merged into: the
\* same-named records when the candidate has no version, the same-named
\* records of exactly its version when it has one.
MergeTargets(packagesMap, candidate) ==
    {i \in 1..Len(packagesMap) :
        /\ packagesMap[i].name = candidate.name
        /\ (IsDef(candidate.version) => packagesMap[i].version = candidate.version)}

\* C23: a candidate without a version is merged into the earliest-inserted
\* record of its name, a candidate with a version into the earliest record
\* of its name and exactly its version, and a candidate with no such record
\* is inserted as a new record under its own generated id; no other record
\* changes.
C23_MergedByNameAndVersionOrInserted ==
    [][(AtTableEntry /\ packageCandidate(ex, Head(Head(ex.stack).entries)[1],
                                         Head(Head(ex.stack).entries)[2]).made) =>
          LET candidate == packageCandidate(ex, Head(Head(ex.stack).entries)[1],
                                            Head(Head(ex.stack).entries)[2]).candidate
              targets == MergeTargets(ex.packagesMap, candidate)
          IN IF targets = {}
             THEN ex'.packagesMap = Append(ex.packagesMap, candidate)
             ELSE LET at == CHOOSE i \in targets : \A j \in targets : i <= j
                  IN ex'.packagesMap =
                        [ex.packagesMap EXCEPT
                            ![at] = mergePackageFields(ex.heap, @, candidate)]]_vars

\* The step runs the updater of the lookup.
Writes(l) == LookupOf(l).pc = "update" /\ Moves(l)

\* C24: the updater of a lookup changes at most the record at the index of
\* its own package: the list keeps its length and every other record, and
\* the written record keeps its id, name, version, resolved, isExplicit and
\* localOnly.
C24_WriteTouchesOwnIndexOnly ==
    [][\A l \in Lookups :
          Writes(l) =>
              /\ Len(packages') = Len(packages)
              /\ \A k \in DOMAIN packages :
                    IF k # l[2] THEN packages'[k] = packages[k]
                    ELSE /\ packages'[k].id = packages[k].id
                         /\ packages'[k].name = packages[k].name
                         /\ packages'[k].version = packages[k].version
                         /\ packages'[k].resolved = packages[k].resolved
                         /\ packages'[k].isExplicit = packages[k].isExplicit
                         /\ packages'[k].localOnly = packages[k].localOnly]_vars

\* The second record of a list of two was written by its lookup, resolved
\* with the registry's answer, while the first is still pending.
C24_Witness ==
    /\ Len(packages) = 2
    /\ packages[1].loading
    /\ ~packages[2].loading
    /\ IsDef(packages[2].npmUrl)
    /\ effects[Live].lookups[2].pc = "done"

\* C25: within one generation a record is modified only while it is
\* loading and is not loading afterwards, so each index is modified at most
\* once; an updater that finds its record no longer loading returns the
\* list as it is.
C25_OneWritePerIndex ==
    [][/\ SameGeneration =>
             \A i \in DOMAIN packages :
                 packages'[i] # packages[i] =>
                     packages[i].loading /\ ~packages'[i].loading
       /\ \A l \in Lookups :
             (Writes(l) /\ l[2] \in DOMAIN packages /\ ~packages[l[2]].loading) =>
                 packages' = packages]_vars

\* A record was written by the lookup of the live effect, and the updater
\* of a superseded lookup for the same index is still to run.
C25_Witness ==
    \E l \in Lookups :
        /\ l[1] < Live
        /\ LookupOf(l).pc = "update"
        /\ l[2] \in DOMAIN packages
        /\ ~packages[l[2]].loading
        /\ l[2] \in DOMAIN effects[Live].lookups
        /\ effects[Live].lookups[l[2]].pc = "done"

(***************************************************************************)
(* One generation of lookups against every answer of the registry: the     *)
(* page after the user entered a document, the network answering, React    *)
(* running the updaters, and the user clearing the box.                    *)
(***************************************************************************)
InitChain ==
    /\ \E text \in {"one", "two"} :
          /\ packageString = text
          /\ effects = Append(Cleanup(<<Effect("")>>),
                              [Effect(text) EXCEPT
                                  !.lookups = StartLookups(InitialPackages(Extracted[text]))])
          /\ \E out \in {processInput(Extracted[text], 2)} :
                /\ packages = out.packages
                /\ error = out.error
                /\ calls = out.calls
    /\ NoExtract
    /\ NoFold
    /\ NoCalc

\* The registry may answer any of its bodies for any package.
RegistryRespondsAny(g, i) ==
    \E outcome \in DOMAIN Responses \cup RegistryFailures :
        RegistryAnswers(g, i, outcome)

NextChain ==
    \/ InputChanges(" ")
    \/ \E l \in Lookups : RegistryRespondsAny(l[1], l[2])
    \/ \E l \in Lookups : HostResponds(l[1], l[2])
    \/ \E l \in Lookups : CommitsResponds(l[1], l[2])
    \/ \E l \in Lookups : Update(l[1], l[2])

SpecChain == InitChain /\ [][NextChain]_vars

\* The calls the step issues for a lookup.
Issued(l) == {c \in calls' \ calls : c.effect = l[1] /\ c.index = l[2]}

TwoCallHosts == {"gitlab.com", "bitbucket.org"}

\* C26: a lookup calls a source host only in the step in which its registry
\* call settles with a body whose repository is of type git and whose URL
\* normalizes to a valid URL with an owner and a repository segment; it
\* issues the commits call of gitlab.com or bitbucket.org only in the step
\* in which its repository call to that host succeeds.
C26_HostCallAfterRegistrySuccess ==
    [][\A l \in Lookups : \A c \in Issued(l) :
          /\ c.kind # "registry"
          /\ c.kind # "commits" =>
                /\ LookupOf(l).pc = "registry"
                /\ \E outcome \in DOMAIN Responses :
                      /\ RegistryAnswers(l[1], l[2], outcome)
                      /\ ~Responses[outcome].null
                      /\ IsDef(Responses[outcome].repository)
                      /\ Responses[outcome].repository[1].type = <<"git">>
                      /\ \E gitUrl \in {normalizeGitUrl(Responses[outcome].repository[1].url)} :
                            /\ IsDef(gitUrl)
                            /\ ValidUrl(gitUrl[1])
                            /\ Len(pathParts(gitUrl[1])) >= 2
                            /\ c.kind = hostname(gitUrl[1])
          /\ c.kind = "commits" =>
                /\ LookupOf(l).pc = "host"
                /\ HostOf(LookupOf(l).gitUrl) \in TwoCallHosts
                /\ Fetch(l[1], l[2], HostOf(LookupOf(l).gitUrl)).kind
                      \in {d.kind : d \in {e \in calls : e.effect = l[1] /\ e.index = l[2]}}
                /\ HostAnswers(l[1], l[2], "ok")]_vars

\* The lookup of a package on bitbucket.org has issued its commits call
\* after its repository call, while the other lookup of the list, whose
\* registry body names a repository of another type, called no host.
C26_Witness ==
    \E l, k \in Lookups :
        /\ l[1] = Live
        /\ k[1] = Live
        /\ LookupOf(l).pc = "commits"
        /\ HostOf(LookupOf(l).gitUrl) = "bitbucket.org"
        /\ \E c \in calls : c.effect = l[1] /\ c.index = l[2] /\ c.kind = "commits"
        /\ LookupOf(k).payload = "svn"
        /\ \A c \in calls : (c.effect = k[1] /\ c.index = k[2]) => c.kind = "registry"

\* C27: once the cleanup of an effect has run, every call a lookup of that
\* effect issues carries the aborted signal, and a lookup resumed by the
\* answer of its registry call issues none and returns.
C27_NoLiveCallAfterCancellation ==
    [][\A l \in Lookups :
          (effects[l[1]].cancelled /\ Moves(l)) =>
              /\ \A c \in Issued(l) : c.aborted
              /\ LookupOf(l).pc = "registry" =>
                    /\ Issued(l) = {}
                    /\ effects'[l[1]].lookups[l[2]] = Done]_vars

\* A superseded lookup has issued its commits call on the aborted signal,
\* and another lookup of the same effect returned at the registry's answer
\* without a call to a host.
C27_Witness ==
    \E l, k \in Lookups :
        /\ l[1] = k[1]
        /\ effects[l[1]].cancelled
        /\ \E c \in calls :
              c.effect = l[1] /\ c.index = l[2] /\ c.kind = "commits" /\ c.aborted
        /\ LookupOf(k) = Done
        /\ \A c \in calls :
              (c.effect = k[1] /\ c.index = k[2]) => (c.kind = "registry" /\ ~c.aborted)
        /\ HasResolved(k)

\* The step folds the next candidate of each order.
Folds == fold'.k = fold.k + 1

ScalarFields == {"version", "path", "resolved", "integrity"}

FlagFields == {"dev", "optional", "peer", "extraneous"}

\* C28: a merge keeps every non-empty version, path, resolved and integrity
\* of its target and every flag dev, optional, peer and extraneous its
\* target has set; a field that changes was empty or unset in the target
\* and takes the value of the source.
C28_TargetFieldsWin ==
    [][Folds =>
          \A i \in DOMAIN fold.mapOne :
              /\ \A f \in ScalarFields :
                    /\ StrTruthy(fold.mapOne[i][f]) => fold'.mapOne[i][f] = fold.mapOne[i][f]
                    /\ fold'.mapOne[i][f] # fold.mapOne[i][f] =>
                          fold'.mapOne[i][f] = fold.one[fold.k + 1][f]
              /\ \A f \in FlagFields :
                    /\ IsDef(fold.mapOne[i][f]) => fold'.mapOne[i][f] = fold.mapOne[i][f]
                    /\ fold'.mapOne[i][f] # fold.mapOne[i][f] =>
                          fold'.mapOne[i][f] = fold.one[fold.k + 1][f]]_vars

\* The record of x at version 1 was merged from two entries with different
\* resolved URLs: it kept the URL of the first and took the integrity and
\* the dev flag, which the first had not, from the second.
C28_Witness ==
    \E i \in DOMAIN fold.mapOne :
        /\ fold.mapOne[i].resolved = Some(UrlX)
        /\ fold.mapOne[i].integrity = Some(<<"sha512-x">>)
        /\ fold.mapOne[i].dev = Some(TRUE)
        /\ \E j \in 1..fold.k : fold.one[j].resolved = Some(UrlX2)

KeySetOf(entries) == {entries[j][1] : j \in DOMAIN entries}

\* C29: the raw bag of a merged record has the keys of the target's bag and
\* of the incoming bag, each once; under a key the incoming bag has, its
\* value is the incoming one, and under every other key the target's.
C29_RawSpreadIncomingWins ==
    [][Folds =>
          LET candidate == fold.one[fold.k + 1]
              found == findMatchingId(fold.mapOne, candidate)
              at == MapIndex(fold.mapOne, IF IsDef(found) THEN found[1] ELSE candidate.id)
          IN at # 0 =>
                LET target == RawEntries(PoolHeap, fold.mapOne[at].raw)
                    source == RawEntries(PoolHeap, candidate.raw)
                    merged == RawEntries(PoolHeap, fold'.mapOne[at].raw)
                IN /\ KeySetOf(merged) = KeySetOf(target) \cup KeySetOf(source)
                   /\ Len(merged) = Cardinality(KeySetOf(merged))
                   /\ \A key \in KeySetOf(merged) :
                         Get(merged, key) = IF HasKey(source, key) THEN Get(source, key)
                                            ELSE Get(target, key)]_vars

\* The record of x at version 1 was merged from two entries: its bag holds
\* the resolved URL of the second, incoming entry, the license only the
\* first has and the integrity only the second has.
C29_Witness ==
    \E i \in DOMAIN fold.mapOne :
        /\ fold.mapOne[i].raw.ref = 0
        /\ Get(fold.mapOne[i].raw.own, K("resolved")) = JString(UrlX2)
        /\ Get(fold.mapOne[i].raw.own, K("license")) = JString(<<"MIT">>)
        /\ Get(fold.mapOne[i].raw.own, K("integrity")) = JString(<<"sha512-x">>)
        /\ fold.mapOne[i].resolved = Some(UrlX)

\* The hostname of the repository a registry body names: of its git URL,
\* normalized, when that has an owner and a repository segment; else "".
RepositoryHost(outcome) ==
    LET repository == Responses[outcome].repository
        gitUrl == IF IsDef(repository) /\ repository[1].type = <<"git">>
                  THEN normalizeGitUrl(repository[1].url) ELSE undefined
    IN IF IsDef(gitUrl) /\ Len(pathParts(gitUrl[1])) >= 2 THEN hostname(gitUrl[1]) ELSE ""

\* C30: when the registry's body names a repository, the lookup of a live
\* effect asks by its hostname: github.com, one call to the relay and none
\* after it; gitlab.com and bitbucket.org, a call to the host and, on its
\* success, the commits call; any other hostname, no call at all, and the
\* lookup hands React the updater that resolves the record with the
\* repository URL and no last-commit date.
C30_HostChosenByHostname ==
    [][\A l \in Lookups :
          /\ \A outcome \in DOMAIN Responses :
                (/\ LookupOf(l).pc = "registry"
                 /\ ~effects[l[1]].cancelled
                 /\ ~Responses[outcome].null
                 /\ RepositoryHost(outcome) # ""
                 /\ RegistryAnswers(l[1], l[2], outcome)) =>
                    IF RepositoryHost(outcome) \in {"github.com"} \cup TwoCallHosts
                    THEN Issued(l) = {[effect |-> l[1], index |-> l[2],
                                       kind |-> RepositoryHost(outcome), aborted |-> FALSE]}
                    ELSE /\ Issued(l) = {}
                         /\ effects'[l[1]].lookups[l[2]] =
                               Lookup("update", "resolved", outcome,
                                      normalizeGitUrl(Responses[outcome].repository[1].url),
                                      undefined)
          /\ (LookupOf(l).pc = "host" /\ Moves(l)) =>
                IF HostOf(LookupOf(l).gitUrl) = "github.com"
                THEN Issued(l) = {} /\ effects'[l[1]].lookups[l[2]].pc = "update"
                ELSE /\ HostOf(LookupOf(l).gitUrl) \in TwoCallHosts
                     /\ \A c \in Issued(l) : c.kind = "commits"
          /\ (/\ Writes(l)
              /\ ~effects[l[1]].cancelled
              /\ LookupOf(l).write = "resolved"
              /\ RepositoryHost(LookupOf(l).payload) \notin {"", "github.com"} \cup TwoCallHosts) =>
                /\ ~packages'[l[2]].loading
                /\ IsDef(packages'[l[2]].npmUrl)
                /\ IsDef(packages'[l[2]].gitUrl)
                /\ ~IsDef(packages'[l[2]].lastCommitDate)]_vars

\* A record was resolved with a repository on another host and no
\* last-commit date, its lookup having issued the registry call only, while
\* the other lookup of the list has asked the relay for github.com once and
\* resolved its record with it.
C30_Witness ==
    \E l, k \in Lookups :
        /\ l[1] = Live
        /\ k[1] = Live
        /\ LookupOf(l) = Done
        /\ ~packages[l[2]].loading
        /\ IsDef(packages[l[2]].gitUrl)
        /\ hostname(packages[l[2]].gitUrl[1]) = "example.org"
        /\ ~IsDef(packages[l[2]].lastCommitDate)
        /\ \A c \in calls : (c.effect = l[1] /\ c.index = l[2]) => c.kind = "registry"
        /\ LookupOf(k) = Done
        /\ IsDef(packages[k[2]].lastCommitDate)
        /\ {c.kind : c \in {d \in calls : d.effect = k[1] /\ d.index = k[2]}}
              = {"registry", "github.com"}

(***************************************************************************)
(* The relay for github.com (api/github-commit/route.ts): a request, the   *)
(* repository call, the commit call and the response.                      *)
(***************************************************************************)

\* The bodies of a request: text that is not JSON, null, or an object with
\* or without owner and repo.
RelayBodies ==
    {[kind |-> "invalid", owner |-> undefined, repo |-> undefined],
     [kind |-> "null", owner |-> undefined, repo |-> undefined]}
    \cup [kind : {"object"},
          owner : {undefined, Some(<< >>), Some(<<"o">>), Some(<<"p">>)},
          repo : {undefined, Some(<< >>), Some(<<"x">>), Some(<<"y">>)}]

\* What an upstream call may end in: a body, a non-success status, or a
\* failure of fetch.
UpstreamFailures ==
    {[kind |-> "notok", status |-> 404], [kind |-> "notok", status |-> 403],
     [kind |-> "error", status |-> 0]}

RepoAnswers ==
    UpstreamFailures
    \cup [kind : {"ok"}, status : {200}, archived : {undefined, Some(TRUE)},
          default_branch : {undefined, Some(<<"dev">>)}, stargazers_count : {0, 7}]

CommitAnswers ==
    UpstreamFailures
    \cup [kind : {"ok"}, status : {200}, date : {undefined, Some(Date)}]

RelayResponse(status, message, lastCommitDate, starCount, isArchived) ==
    [status |-> status, error |-> message, lastCommitDate |-> lastCommitDate,
     starCount |-> starCount, isArchived |-> isArchived]

RelayError(status, message) == RelayResponse(status, message, undefined, undefined, undefined)

\* Lines 16-36: the body is read and destructured (either may throw, which
\* the catch of lines 78-84 answers with 500), owner and repo are checked,
\* and the repository call is issued.
relayRequest(body) ==
    IF body.kind \in {"invalid", "null"}
    THEN [pc |-> "responded", body |-> body, upstream |-> << >>,
          response |-> RelayError(500, "Internal server error")]
    ELSE IF ~StrTruthy(body.owner) \/ ~StrTruthy(body.repo)
    THEN [pc |-> "responded", body |-> body, upstream |-> << >>,
          response |-> RelayError(400, "Missing owner or repo")]
    ELSE [pc |-> "repo", body |-> body, upstream |-> <<"repo">>]

\* Mutant of relayAfterRepo: the commit call is issued whatever the
\* repository call answered.
relayAfterRepo_Always(st, answer) ==
    IF answer.kind = "error"
    THEN [pc |-> "responded", body |-> st.body, upstream |-> st.upstream,
          response |-> RelayError(500, "Internal server error")]
    ELSE [pc |-> "commit", body |-> st.body, upstream |-> Append(st.upstream, "commit"),
          defaultBranch |-> <<"main">>,
          starCount |-> Some(7),
          isArchived |-> FALSE]

\* Lines 38-57: the answer of the repository call, and the commit call.
relayAfterRepo(st, answer) ==
    IF answer.kind = "error"
    THEN [pc |-> "responded", body |-> st.body, upstream |-> st.upstream,
          response |-> RelayError(500, "Internal server error")]
    ELSE IF answer.kind = "notok"
    THEN [pc |-> "responded", body |-> st.body, upstream |-> st.upstream,
          response |-> RelayError(answer.status, "Failed to fetch repo info")]
    ELSE [pc |-> "commit", body |-> st.body, upstream |-> Append(st.upstream, "commit"),
          defaultBranch |-> IF StrTruthy(answer.default_branch)
                            THEN answer.default_branch[1] ELSE <<"main">>,
          starCount |-> Some(answer.stargazers_count),
          isArchived |-> IsDef(answer.archived) /\ answer.archived[1]]

\* Lines 59-77: the answer of the commit call, and the response.
relayAfterCommit(st, answer) ==
    [pc |-> "responded", body |-> st.body, upstream |-> st.upstream,
     response |->
        IF answer.kind = "error" THEN RelayError(500, "Internal server error")
        ELSE IF answer.kind = "notok"
        THEN RelayError(answer.status, "Failed to fetch commits")
        ELSE RelayResponse(200, "", answer.date, st.starCount, Some(st.isArchived))]

InitRelay ==
    /\ \E body \in RelayBodies : calc = [fn |-> "relay", pc |-> "request", body |-> body]
    /\ NoExtract
    /\ NoFold
    /\ NoPage

RelayRequest ==
    /\ calc.fn = "relay"
    /\ calc.pc = "request"
    /\ calc' = [fn |-> "relay"] @@ relayRequest(calc.body)
    /\ UNCHANGED <<exVars, fold, pageVars>>

RelayRepoResponds ==
    /\ calc.fn = "relay"
    /\ calc.pc = "repo"
    /\ \E answer \in RepoAnswers : calc' = [fn |-> "relay"] @@ relayAfterRepo(calc, answer)
    /\ UNCHANGED <<exVars, fold, pageVars>>

RelayCommitResponds ==
    /\ calc.fn = "relay"
    /\ calc.pc = "commit"
    /\ \E answer \in CommitAnswers : calc' = [fn |-> "relay"] @@ relayAfterCommit(calc, answer)
    /\ UNCHANGED <<exVars, fold, pageVars>>

NextRelay ==
    \/ RelayRequest
    \/ RelayRepoResponds
    \/ RelayCommitResponds

SpecRelay == InitRelay /\ [][NextRelay]_vars

\* The response carries the three fields of a success.
RelaySuccess(response) ==
    /\ response.status = 200
    /\ IsDef(response.starCount)
    /\ IsDef(response.isArchived)

\* The relay's calls in order, each issued only after the one before it
\* succeeded, and the status of a failed call passed on.
RelayCallsInOrder ==
       /\ calc'.upstream \in {<< >>, <<"repo">>, <<"repo", "commit">>}
       /\ calc.pc = "repo" =>
             \A answer \in RepoAnswers :
                 (answer.kind = "notok" /\ calc' = [fn |-> "relay"] @@ relayAfterRepo(calc, answer)) =>
                     /\ calc'.pc = "responded"
                     /\ calc'.response.status = answer.status
                     /\ calc'.upstream = <<"repo">>
       /\ calc.pc = "commit" =>
             \A answer \in CommitAnswers :
                 (answer.kind = "notok" /\ calc' = [fn |-> "relay"] @@ relayAfterCommit(calc, answer)) =>
                     calc'.response.status = answer.status
       /\ (calc'.pc = "responded" /\ RelaySuccess(calc'.response)) =>
             /\ calc.pc = "commit"
             /\ calc'.upstream = <<"repo", "commit">>
       /\ (calc'.pc = "responded" /\ ~RelaySuccess(calc'.response)) =>
             /\ ~IsDef(calc'.response.lastCommitDate)
             /\ ~IsDef(calc'.response.starCount)
             /\ ~IsDef(calc'.response.isArchived)

MissingOwnerOrRepo(body) == ~StrTruthy(body.owner) \/ ~StrTruthy(body.repo)

\* C31: the relay performs its two upstream calls in order and stops at the
\* first failure; a request missing owner or repo gets status 400 with no
\* upstream call.
C31_RelayStopsAtFirstFailure ==
    [][/\ RelayCallsInOrder
       /\ (calc.pc = "request" /\ MissingOwnerOrRepo(calc.body)) =>
             /\ calc'.pc = "responded"
             /\ calc'.response.status = 400
             /\ calc'.upstream = << >>]_vars

\* C31 amended: as C31, for a request whose body is a JSON value other than
\* null; a body that is null or is not JSON gets status 500, also with no
\* upstream call.
C31_RelayStopsAtFirstFailureObjectBody ==
    [][/\ RelayCallsInOrder
       /\ (calc.pc = "request" /\ MissingOwnerOrRepo(calc.body)) =>
             /\ calc'.pc = "responded"
             /\ calc'.response.status = (IF calc.body.kind = "object" THEN 400 ELSE 500)
             /\ calc'.upstream = << >>]_vars

\* The repository call succeeded and the commit call did not: the response
\* has the status of the commit call and none of the three fields.
C31_Witness ==
    /\ calc.fn = "relay"
    /\ calc.pc = "responded"
    /\ calc.upstream = <<"repo", "commit">>
    /\ calc.response.status = 403
    /\ ~IsDef(calc.response.starCount)

(***************************************************************************)
(* The audit relay (api/npm-vulnerabilities/route.ts): the breakdown it    *)
(* makes of the registry's audit answer.  vulnerabilities is the entries   *)
(* of the answer's object, name -> data; an element of a via list is an    *)
(* advisory object or anything else (the name of another package).         *)
(***************************************************************************)
MaxVia == 2

Severities == {"critical", "high", "moderate", "low", "info"}

\* severityOrder[severity] (lines 83-89), for a recognized severity.
severityOrder(severity) ==
    CASE severity = "critical" -> 4
      [] severity = "high" -> 3
      [] severity = "moderate" -> 2
      [] severity = "low" -> 1
      [] OTHER -> 0

\* The test of lines 93-98: an object with a title and a severity.
isAdvisory(element) == element.object /\ element.title /\ element.severity # ""

RECURSIVE maxSeverityOf(_, _)
\* Mutant of maxSeverityOf: the last recognized severity is kept.
maxSeverityOf_Last(via, maxSeverity) ==
    IF via = << >> THEN maxSeverity
    ELSE maxSeverityOf(Tail(via),
            IF /\ isAdvisory(Head(via))
               /\ Head(via).severity \in Severities
            THEN Head(via).severity ELSE maxSeverity)

\* The loop of lines 92-130 on maxSeverity: a comparison with the order of
\* a severity that has none is false.
maxSeverityOf(via, maxSeverity) ==
    IF via = << >> THEN maxSeverity
    ELSE maxSeverityOf(Tail(via),
            IF /\ isAdvisory(Head(via))
               /\ Head(via).severity \in Severities
               /\ severityOrder(Head(via).severity) > severityOrder(maxSeverity)
            THEN Head(via).severity ELSE maxSeverity)

\* The advisories of a package: pkgVulns, by their positions in via.
pkgVulnsOf(vulnData) ==
    IF vulnData.object /\ vulnData.hasVia /\ vulnData.viaIsArray
    THEN {i \in 1..Len(vulnData.via) : isAdvisory(vulnData.via[i])}
    ELSE {}

\* Lines 74-144: advisoriesByPackage and the summary.
auditBreakdown(vulnerabilities) ==
    [advisoriesByPackage |->
        [name \in {vulnerabilities[i][1] :
                      i \in {j \in 1..Len(vulnerabilities) :
                                pkgVulnsOf(vulnerabilities[j][2]) # {}}} |->
            LET vulnData == Get(vulnerabilities, name)
            IN [count |-> Cardinality(pkgVulnsOf(vulnData)),
                severity |-> maxSeverityOf(vulnData.via, "info")]],
     summary |->
        [severity \in Severities |->
            Cardinality({<<i, k>> \in (1..Len(vulnerabilities)) \X (1..(MaxVia + 1)) :
                            /\ k \in pkgVulnsOf(vulnerabilities[i][2])
                            /\ vulnerabilities[i][2].via[k].severity = severity})]]

\* What a via list may hold: advisories of every severity and of one the
\* relay does not know, an object without a title, the name of a package.
ViaElements ==
    [object : {TRUE}, title : {TRUE}, severity : Severities \cup {"weird"}]
    \cup {[object |-> TRUE, title |-> FALSE, severity |-> "high"],
          [object |-> FALSE, title |-> FALSE, severity |-> ""]}

VulnData(via) == [object |-> TRUE, hasVia |-> TRUE, viaIsArray |-> TRUE, via |-> via]

\* The audit answers: package a with any via list, and package b absent,
\* with one high advisory, with the name of a only, or not an object.
AuditAnswers ==
    {<< <<K("a"), VulnData(via)>> >> \o rest :
        via \in UNION {[1..n -> ViaElements] : n \in 0..MaxVia},
        rest \in {<< >>,
                  << <<K("b"), VulnData(<<[object |-> TRUE, title |-> TRUE, severity |-> "high"]>>)>> >>,
                  << <<K("b"), VulnData(<<[object |-> FALSE, title |-> FALSE, severity |-> ""]>>)>> >>,
                  << <<K("b"), [object |-> FALSE, hasVia |-> FALSE, viaIsArray |-> FALSE,
                                via |-> << >>]>> >>}}

InitBreakdown ==
    /\ \E vulnerabilities \in AuditAnswers :
          calc = [fn |-> "auditBreakdown", vulnerabilities |-> vulnerabilities]
    /\ NoExtract
    /\ NoFold
    /\ NoPage

Breakdown ==
    /\ calc.fn = "auditBreakdown"
    /\ calc' = [fn |-> "broken down", vulnerabilities |-> calc.vulnerabilities,
                result |-> auditBreakdown(calc.vulnerabilities)]
    /\ UNCHANGED <<exVars, fold, pageVars>>

NextBreakdown == Breakdown

SpecBreakdown == InitBreakdown /\ [][NextBreakdown]_vars

\* The severities of the advisory objects of a via list.
AdvisorySeverities(vulnData) ==
    {vulnData.via[k].severity : k \in pkgVulnsOf(vulnData)}

\* Count, omission and summary: a package is in the breakdown exactly when
\* its via list has an advisory object, its count is their number, and
\* each bucket of the summary counts the advisories of its severity.
CountsAndBuckets ==
    LET entries == calc.vulnerabilities
        result == calc.result
    IN /\ \A i \in 1..Len(entries) :
             LET objects == {k \in 1..Len(entries[i][2].via) :
                                /\ entries[i][2].object
                                /\ entries[i][2].via[k].object
                                /\ entries[i][2].via[k].title
                                /\ entries[i][2].via[k].severity # ""}
             IN /\ entries[i][1] \in DOMAIN result.advisoriesByPackage <=> objects # {}
                /\ objects # {} =>
                      result.advisoriesByPackage[entries[i][1]].count = Cardinality(objects)
       /\ \A severity \in Severities :
             result.summary[severity] =
                 Cardinality({<<i, k>> \in (1..Len(entries)) \X (1..(MaxVia + 1)) :
                                 /\ k \in 1..Len(entries[i][2].via)
                                 /\ entries[i][2].object
                                 /\ entries[i][2].via[k].object
                                 /\ entries[i][2].via[k].title
                                 /\ entries[i][2].via[k].severity = severity})

\* C32: each package of the breakdown has the count of the advisory objects
\* of its via list and the highest-ranked severity among them; a package
\* without one is omitted; each advisory of a recognized severity adds one
\* to the bucket of that severity.
C32_BreakdownCountsAndPeak ==
    calc.fn = "broken down" =>
        /\ CountsAndBuckets
        /\ \A name \in DOMAIN calc.result.advisoriesByPackage :
              LET among == AdvisorySeverities(Get(calc.vulnerabilities, name))
                  peak == calc.result.advisoriesByPackage[name].severity
              IN /\ peak \in among
                 /\ \A severity \in among \cap Severities :
                       severityOrder(severity) <= severityOrder(peak)

\* C32 amended: the severity of a package is the highest-ranked recognized
\* severity among its advisories, and info when none of them has a
\* recognized severity.
C32_BreakdownCountsAndRecognizedPeak ==
    calc.fn = "broken down" =>
        /\ CountsAndBuckets
        /\ \A name \in DOMAIN calc.result.advisoriesByPackage :
              LET among == AdvisorySeverities(Get(calc.vulnerabilities, name)) \cap Severities
                  peak == calc.result.advisoriesByPackage[name].severity
              IN IF among = {} THEN peak = "info"
                 ELSE /\ peak \in among
                      /\ \A severity \in among :
                            severityOrder(severity) <= severityOrder(peak)

\* Package a has a high advisory before a low one and package b a high one:
\* a counts two with the peak high, and the bucket of high holds two.
C32_Witness ==
    /\ calc.fn = "broken down"
    /\ K("a") \in DOMAIN calc.result.advisoriesByPackage
    /\ calc.result.advisoriesByPackage[K("a")] = [count |-> 2, severity |-> "high"]
    /\ calc.vulnerabilities[1][2].via[2].severity = "low"
    /\ calc.result.summary["high"] = 2

\* The next entry of the nested tree is not an object.
AtBareEntry ==
    /\ ex.pc \in {"collectPackages", "collectDependencies"}
    /\ ex.stack # << >>
    /\ Head(ex.stack).fn = "collectDependencies"
    /\ ~isRecord(Head(Head(ex.stack).entries)[2])

\* C33: of an entry of the nested tree that is a bare string the candidate
\* has the string as its version, of an entry that is neither an object nor
\* a string it has no version, and in both it has the name and no other
\* field; the entry's children are not expanded.
C33_BareEntriesVersionOnly ==
    [][AtBareEntry =>
          LET depName == Head(Head(ex.stack).entries)[1]
              depInfo == Head(Head(ex.stack).entries)[2]
              rest == <<Frame("collectDependencies", Tail(Head(ex.stack).entries))>>
                          \o Tail(ex.stack)
              made == dependencyCandidate(ex, depName, depInfo)
          IN /\ made.made <=> Trim(depName) # << >>
             /\ made.made =>
                   /\ made.candidate.name = Trim(depName)
                   /\ made.candidate.version =
                         (IF depInfo.t = "string" THEN Some(depInfo.s) ELSE undefined)
                   /\ \A f \in {"resolved", "integrity", "dev", "optional", "peer",
                                "extraneous", "path", "dependencies", "requires",
                                "peerDependencies", "bundledDependencies"} :
                         made.candidate[f] = undefined
                   /\ made.candidate.sources = <<"dependencies">>
                   /\ ex'.packagesMap = mergePackageInfo(ex, made.candidate).packagesMap
             /\ ~made.made => ex'.packagesMap = ex.packagesMap
             /\ ex'.stack = Unwind(rest)
             /\ ex'.visited = ex.visited
             /\ ex'.expansions = ex.expansions]_vars

\* The nested section's bare string, empty string, number and null have
\* been folded: s has the version "2", e the empty version, n and z none,
\* and the nameless key made no record.
C33_Witness ==
    /\ ex.pc = "collectDependencies"
    /\ Len(ex.packagesMap) = 4
    /\ ex.packagesMap[1].name = K("s")
    /\ ex.packagesMap[1].version = Some(<<"2">>)
    /\ ex.packagesMap[2].version = Some(<< >>)
    /\ ex.packagesMap[3].name = K("n")
    /\ ex.packagesMap[3].version = undefined
    /\ ex.packagesMap[4].name = K("z")
    /\ ex.packagesMap[4].dependencies = undefined
    /\ ex.stack # << >>
    /\ Head(Head(ex.stack).entries)[1] = K("x")

\* The step visits an entry a candidate is made of: an object of the flat
\* table, or any entry of the nested tree.
AtEntry ==
    /\ ex.pc \in {"collectPackages", "collectDependencies"}
    /\ ex.stack # << >>
    /\ Head(ex.stack).fn = "collectPackages" => isRecord(Head(Head(ex.stack).entries)[2])

\* The candidate made of the entry, if any.
EntryCandidate ==
    IF Head(ex.stack).fn = "collectPackages"
    THEN packageCandidate(ex, Head(Head(ex.stack).entries)[1], Head(Head(ex.stack).entries)[2])
    ELSE dependencyCandidate(ex, Head(Head(ex.stack).entries)[1],
                             Head(Head(ex.stack).entries)[2])

\* The names the entry offers: the trailing segment of its path or its
\* nesting key, and the name field of its metadata.
OfferedNames ==
    LET key == Head(Head(ex.stack).entries)[1]
        info == Head(Head(ex.stack).entries)[2]
        outer == IF Head(ex.stack).fn = "collectPackages"
                 THEN deriveNameFromPath(Some(key)) ELSE Some(key)
        own == IF isRecord(info) THEN asString(Get(EntriesOf(ex.heap, info), K("name")))
               ELSE undefined
    IN {n[1] : n \in {outer, own} \ {undefined}}

\* C34: an entry is dropped exactly when neither its path or nesting key
\* nor its own name field gives a name that is not empty once trimmed; the
\* traversal goes on after a dropped entry, and every record kept has a
\* trimmed name that is not empty.
C34_DroppedExactlyWithoutName ==
    [][AtEntry =>
          /\ ~EntryCandidate.made <=> \A n \in OfferedNames : Trim(n) = << >>
          /\ ex'.iterations = ex.iterations + 1
          /\ ex'.pc \in {"collectPackages", "collectDependencies"}
          /\ \A i \in DOMAIN ex'.packagesMap :
                /\ ex'.packagesMap[i].name # << >>
                /\ Trim(ex'.packagesMap[i].name) = ex'.packagesMap[i].name]_vars

\* The records the final pass reads: those attested by the flat table.
FromPackages ==
    SelectSeq(ex.packagesMap,
              LAMBDA pkg : \E i \in 1..Len(pkg.sources) : pkg.sources[i] = "packages")

\* C36: a candidate is merged only into a record of its own name: the
\* record the fold picks for it (by matching id, else by the candidate's
\* generated id) has the candidate's name, and two records the final pass
\* collapses under one key have the same name.
C36_MergedOnlyIntoSameName ==
    /\ (AtEntry /\ EntryCandidate.made) =>
          LET candidate == EntryCandidate.candidate
              found == findMatchingId(ex.packagesMap, candidate)
              at == MapIndex(ex.packagesMap,
                             IF IsDef(found) THEN found[1] ELSE candidate.id)
          IN at # 0 => ex.packagesMap[at].name = candidate.name
    /\ (ex.pc = "collectDependencies" /\ ex.stack = << >>) =>
          \A i, j \in 1..Len(FromPackages) :
              dedupKey(FromPackages[i]) = dedupKey(FromPackages[j]) =>
                  FromPackages[i].name = FromPackages[j].name

\* C37: every entry of the flat table a candidate is made of is represented
\* in the returned list: the list holds a record of the candidate's name.
C37_TableEntriesRepresented ==
    ex.pc = "return" =>
        \A name \in TableNames(ex.heap, ex.lockFile) :
            \E i \in 1..Len(ex.result) : ex.result[i].name = name

\* C38: in every state of the page a message that is not empty stands
\* beside an empty package list.
C38_MessageMeansEmptyList == error # "" => packages = << >>

\* A message is shown while the updater of a lookup of a superseded effect
\* is still to run, and another such lookup has run its updater.
C38_Witness ==
    /\ error # ""
    /\ packages = << >>
    /\ \E g \in 1..(Len(effects) - 1) :
          /\ effects[g].cancelled
          /\ \E i, j \in DOMAIN effects[g].lookups :
                /\ effects[g].lookups[i].pc = "update"
                /\ effects[g].lookups[j].pc = "done"

\* C39: no step of extractPackages changes the document: every object of
\* the parsed lockfile has the entries it had, and the root is the same.
C39_DocumentUnchanged ==
    [][/\ ex'.heap = ex.heap
       /\ ex'.lockFile = ex.lockFile]_vars

\* A first call has returned a sorted list of two records, one with a raw
\* bag merged of two entries and one with a sorted list of dependencies.
C39_Witness ==
    /\ ex.pc = "return"
    /\ run = 1
    /\ Len(ex.result) = 2
    /\ \E i \in 1..Len(ex.result) : ex.result[i].raw.ref = 0
    /\ \E i \in 1..Len(ex.result) : IsDef(ex.result[i].dependencies)

(***************************************************************************)
(* The page when every call that was issued completes and React runs every *)
(* updater handed to it: some step of some lookup is taken as long as one  *)
(* is possible.  The user may stop typing at any time.                     *)
(***************************************************************************)
SomeLookupStep == \E l \in Lookups : LookupStep(l[1], l[2])

SpecLive == Init /\ [][Next]_vars /\ WF_vars(SomeLookupStep)

PendingCount == Cardinality({i \in DOMAIN packages : packages[i].loading})

\* C35: when no new input arrives, every record of the generation leaves
\* pending: from every generation the page reaches a state without a
\* pending record, or a new generation; and within a generation the number
\* of pending records never grows.
C35_PendingReachesZero ==
    /\ \A n \in 1..(MaxInputs + 1) : (Live = n) ~> (Live # n \/ PendingCount = 0)
    /\ [][SameGeneration => PendingCount' <= PendingCount]_vars

\* The two records of a list have left pending, one resolved and one with
\* a failed lookup, and every lookup of the effect is done.
C35_Witness ==
    /\ Len(packages) = 2
    /\ PendingCount = 0
    /\ IsDef(packages[1].npmUrl)
    /\ ~IsDef(packages[2].npmUrl)
    /\ HasResolved(<<Live, 2>>)
    /\ \A i \in DOMAIN packages : effects[Live].lookups[i].pc = "done"

====
